---- MODULE Spec2Model ----
(***************************************************************************)
(* RAG pipeline of src/rag_system.py: DocumentProcessor (text extraction   *)
(* and chunking), VectorStore (the Chroma collection with its lazily       *)
(* loaded embedding model) and the RAGSystem facade.                       *)
(*                                                                         *)
(* Strings are sequences of tokens.  A token is a run of characters of one *)
(* kind: sp tells whether the run is whitespace, w is its length in        *)
(* characters, id distinguishes runs of the same length.                   *)
(***************************************************************************)
EXTENDS Integers, Sequences, FiniteSets, TLC

VARIABLES
    c_words,     \* chunker run: the words the input text was laid out from
    c_text,      \* chunker run: the text handed to split_text_into_chunks
    c_size,      \* chunker run: DocumentProcessor.chunk_size
    c_overlap,   \* chunker run: DocumentProcessor.chunk_overlap
    c_pc,        \* chunker run: "input" before the call, "done" after it
    c_out,       \* chunker run: what the call left behind
    collection,  \* VectorStore.collection: the stored chunks
    model,       \* VectorStore._model: "None" until the first load
    last,        \* store runs: the last call and how it ended
    call,        \* single calls: the call made, with all it read and did
    threads,     \* concurrent calls: where each thread is in its call
    users,       \* chat database: table users
    chats,       \* chat database: table chats
    messages,    \* chat database: table messages
    clock,       \* datetime.utcnow: the latest reading found on a stored row
    uuids,       \* uuid.uuid4: the number of identifiers drawn so far
    foreign_keys, \* chat database: whether the engine enforces foreign keys
    ask          \* the /api/chat/ask request being served

chunkVars == <<c_words, c_text, c_size, c_overlap, c_pc, c_out>>
storeVars == <<collection, model, last, call, threads>>
dbVars == <<users, chats, messages, clock, uuids, foreign_keys>>
appVars == <<dbVars, ask>>
vars == <<c_words, c_text, c_size, c_overlap, c_pc, c_out, collection, model, last,
          call, threads, users, chats, messages, clock, uuids, foreign_keys, ask>>

(***************************************************************************)
(* Bounds of the model.                                                    *)
(***************************************************************************)
MaxWords == 4      \* words of an enumerated input text
MaxSize == 3       \* largest enumerated chunk_size
MaxOverlap == 3    \* largest enumerated chunk_overlap
ChunkSize == 2     \* RAGConfig.chunk_size of the modelled store (words)
ChunkOverlap == 1  \* RAGConfig.chunk_overlap of the modelled store (words)
MaxVectors == 2    \* most vectors the encoder answers with
MaxResults == 3    \* largest n_results a search is called with
MaxThreads == 2    \* threads calling into one VectorStore

(***************************************************************************)
(* Tokens and strings.                                                     *)
(***************************************************************************)
Blank == [sp |-> TRUE, id |-> 0, w |-> 1]     \* one space
Tabs == [sp |-> TRUE, id |-> 1, w |-> 20]     \* a run of tabs and line breaks
WordTok(i, n) == [sp |-> FALSE, id |-> i, w |-> n]

RECURSIVE SumW(_)
SumW(s) == IF s = <<>> THEN 0 ELSE Head(s).w + SumW(Tail(s))

\* len(s): the number of characters of a string
StrLen(s) == SumW(s)

\* a whitespace test that knows the space character only
IsSpaceBlankOnly(t) == t = Blank

\* str.isspace of one run, as str.strip and str.split use it
IsSpace(t) == t.sp

RECURSIVE LStrip(_)
LStrip(s) == IF s # <<>> /\ IsSpace(Head(s)) THEN LStrip(Tail(s)) ELSE s

RECURSIVE RStrip(_)
RStrip(s) ==
    IF s # <<>> /\ IsSpace(s[Len(s)]) THEN RStrip(SubSeq(s, 1, Len(s) - 1)) ELSE s

\* s.strip()
Strip(s) == RStrip(LStrip(s))

\* s.split(): the maximal runs of non-whitespace, in order; never an empty word
RECURSIVE SplitFrom(_, _, _)
SplitFrom(s, word, acc) ==
    IF s = <<>>
    THEN IF word = <<>> THEN acc ELSE Append(acc, word)
    ELSE IF IsSpace(Head(s))
         THEN SplitFrom(Tail(s), <<>>, IF word = <<>> THEN acc ELSE Append(acc, word))
         ELSE SplitFrom(Tail(s), Append(word, Head(s)), acc)

Split(s) == SplitFrom(s, <<>>, <<>>)

\* " ".join(words)
RECURSIVE Join(_)
Join(words) ==
    IF words = <<>> THEN <<>>
    ELSE IF Len(words) = 1 THEN words[1]
    ELSE words[1] \o <<Blank>> \o Join(Tail(words))

\* a slice that carries one word too many
TailSliceOneMore(lst, n) ==
    IF n + 1 >= Len(lst) THEN lst ELSE SubSeq(lst, Len(lst) - n, Len(lst))

\* a fresh start: nothing is carried over
TailSliceFresh(lst, n) == <<>>

\* lst[-n:] for n >= 0: Python reads -0 as 0, so lst[-0:] is the whole list,
\* and a bound beyond the start is clipped to the start
TailSlice(lst, n) ==
    IF n = 0 \/ n >= Len(lst) THEN lst ELSE SubSeq(lst, Len(lst) - n + 1, Len(lst))

\* lst[n:] for n >= 0
Drop(lst, n) == IF n >= Len(lst) THEN <<>> ELSE SubSeq(lst, n + 1, Len(lst))

(***************************************************************************)
(* DocumentProcessor.split_text_into_chunks                                *)
(***************************************************************************)
MinChunkChars == 20

\* max(20, int(chunk_size * 0.2))
FullFloor(size) ==
    IF (size * 2) \div 10 > MinChunkChars THEN (size * 2) \div 10 ELSE MinChunkChars

\* "for word in words"; st.full records every buffer that reached chunk_size,
\* emitted or not, with the index of the word that completed it
RECURSIVE ChunkLoop(_, _, _, _, _)
ChunkLoop(words, i, st, size, overlap) ==
    IF i > Len(words) THEN st
    ELSE LET cur == Append(st.cur, words[i]) IN
         IF Len(cur) >= size
         THEN LET chunk == Strip(Join(cur)) IN
              ChunkLoop(words, i + 1,
                        [cur |-> TailSlice(cur, overlap),
                         chunks |-> IF StrLen(chunk) >= FullFloor(size)
                                    THEN Append(st.chunks, chunk) ELSE st.chunks,
                         full |-> Append(st.full, [buf |-> cur, end |-> i])],
                        size, overlap)
         ELSE ChunkLoop(words, i + 1, [st EXCEPT !.cur = cur], size, overlap)

\* a flush without the length floor
FlushNoFloor(st) ==
    IF st.cur # <<>> THEN Append(st.chunks, Strip(Join(st.cur))) ELSE st.chunks

\* "Add the last chunk if meaningful"
Flush(st) ==
    IF st.cur # <<>> /\ StrLen(Strip(Join(st.cur))) >= MinChunkChars
    THEN Append(st.chunks, Strip(Join(st.cur)))
    ELSE st.chunks

\* the whole call: chunks is the returned list, full and last the buffers the
\* loop closed (last is the buffer left for the final flush)
NoChunks == [chunks |-> <<>>, full |-> <<>>, last |-> <<>>, words |-> <<>>]

ChunkRun(text, size, overlap) ==
    IF text = <<>> \/ Strip(text) = <<>>
    THEN NoChunks
    ELSE LET words == Split(text) IN
         IF words = <<>>
         THEN NoChunks
         ELSE LET st == ChunkLoop(words, 1,
                                  [cur |-> <<>>, chunks |-> <<>>, full |-> <<>>],
                                  size, overlap) IN
              [chunks |-> Flush(st), full |-> st.full, last |-> st.cur,
               words |-> words]

split_text_into_chunks(text, size, overlap) == ChunkRun(text, size, overlap).chunks

(***************************************************************************)
(* Inputs of the chunker runs.                                             *)
(***************************************************************************)
Vocabulary == {<<WordTok(2, 1)>>, <<WordTok(3, 9)>>, <<WordTok(4, 20)>>}

WordSeqs == UNION {[1..n -> Vocabulary] : n \in 0..MaxWords}

RECURSIVE JoinWith(_, _)
JoinWith(words, sep) ==
    IF words = <<>> THEN <<>>
    ELSE IF Len(words) = 1 THEN words[1]
    ELSE words[1] \o sep \o JoinWith(Tail(words), sep)

Layout(words, lead, sep, trail) == lead \o JoinWith(words, sep) \o trail

\* the scenario of twelve distinct words, each n characters long
ScenarioWords(n) == [i \in 1..12 |-> <<WordTok(100 + i, n)>>]
ScenarioWidths == {1, 4, 6}

NoCall == [op |-> "none"]
NoThreads == <<>>
NoAsk == [pc |-> "none"]

\* the chat application before anything was stored or asked
IdleApp ==
    /\ users = {}
    /\ chats = {}
    /\ messages = {}
    /\ clock = 0
    /\ uuids = 0
    /\ foreign_keys = FALSE
    /\ ask = NoAsk

InitChunk ==
    /\ collection = {}
    /\ model = "None"
    /\ last = NoCall
    /\ call = NoCall
    /\ threads = NoThreads
    /\ IdleApp
    /\ c_pc = "input"
    /\ c_out = NoChunks
    /\ \/ /\ c_words \in WordSeqs
          /\ \E lead \in {<<>>, <<Blank>>}, sep \in {<<Blank>>, <<Tabs, Blank>>},
                trail \in {<<>>, <<Tabs>>} :
                c_text = Layout(c_words, lead, sep, trail)
          /\ c_size \in 0..MaxSize
          /\ c_overlap \in 0..MaxOverlap
       \/ /\ \E n \in ScenarioWidths : c_words = ScenarioWords(n)
          /\ c_text = JoinWith(c_words, <<Blank>>)
          /\ c_size = 5
          /\ c_overlap = 2

CallSplit ==
    /\ c_pc = "input"
    /\ c_out' = ChunkRun(c_text, c_size, c_overlap)
    /\ c_pc' = "done"
    /\ UNCHANGED <<c_words, c_text, c_size, c_overlap>>
    /\ UNCHANGED <<storeVars, appVars>>

NextChunk == CallSplit

SpecChunk == InitChunk /\ [][NextChunk]_vars

(***************************************************************************)
(* split_text_into_chunks statement by statement: the early returns and    *)
(* text.split(), one pass of "for word in words" per step, and the final   *)
(* flush.  c_out holds chunks and current_chunk (last); call holds the     *)
(* position of the for loop and how often each word was taken.             *)
(***************************************************************************)
InitSplit ==
    /\ collection = {}
    /\ model = "None"
    /\ last = NoCall
    /\ call = NoCall
    /\ threads = NoThreads
    /\ IdleApp
    /\ c_pc = "input"
    /\ c_out = NoChunks
    /\ c_words \in WordSeqs
    /\ c_text = JoinWith(c_words, <<Blank>>)
    /\ c_size \in 1..MaxSize
    /\ c_overlap \in 0..MaxOverlap

\* a loop that passes over the word after a full buffer
NextWordSkipping(i, full) == IF full THEN i + 2 ELSE i + 1

\* the for statement: the next pass takes the next word, whatever the body did
NextWord(i, full) == i + 1

\* lines 114-122: the early returns, text.split(), the empty lists
SplitEnter ==
    /\ c_pc = "input"
    /\ IF c_text = <<>> \/ Strip(c_text) = <<>> \/ Split(c_text) = <<>>
       THEN /\ c_pc' = "done"
            /\ c_out' = NoChunks
            /\ call' = [op |-> "split", i |-> 1, taken |-> <<>>]
       ELSE /\ c_pc' = "loop"
            /\ c_out' = [chunks |-> <<>>, full |-> <<>>, last |-> <<>>,
                         words |-> Split(c_text)]
            /\ call' = [op |-> "split", i |-> 1,
                        taken |-> [k \in 1..Len(Split(c_text)) |-> 0]]
    /\ UNCHANGED <<c_words, c_text, c_size, c_overlap>>
    /\ UNCHANGED <<collection, model, last, threads, appVars>>

\* lines 123-131: one pass of the loop body
SplitWord ==
    /\ c_pc = "loop"
    /\ call.i <= Len(c_out.words)
    /\ LET cur == Append(c_out.last, c_out.words[call.i])
           full == Len(cur) >= c_size
           chunk == Strip(Join(cur))
       IN
       /\ c_out' = IF full
                   THEN [c_out EXCEPT
                            !.last = TailSlice(cur, c_overlap),
                            !.chunks = IF StrLen(chunk) >= FullFloor(c_size)
                                       THEN Append(@, chunk) ELSE @,
                            !.full = Append(@, [buf |-> cur, end |-> call.i])]
                   ELSE [c_out EXCEPT !.last = cur]
       /\ call' = [call EXCEPT !.i = NextWord(call.i, full),
                               !.taken[call.i] = @ + 1]
    /\ UNCHANGED <<c_words, c_text, c_size, c_overlap, c_pc>>
    /\ UNCHANGED <<collection, model, last, threads, appVars>>

\* lines 133-139: the words are exhausted; the last chunk, and the return
SplitReturn ==
    /\ c_pc = "loop"
    /\ call.i > Len(c_out.words)
    /\ c_out' = [c_out EXCEPT
                    !.chunks = Flush([cur |-> c_out.last, chunks |-> c_out.chunks])]
    /\ c_pc' = "done"
    /\ UNCHANGED <<c_words, c_text, c_size, c_overlap, call>>
    /\ UNCHANGED <<collection, model, last, threads, appVars>>

NextSplit == SplitEnter \/ SplitWord \/ SplitReturn

\* the interpreter keeps executing the call
SpecSplit == InitSplit /\ [][NextSplit]_vars /\ WF_vars(NextSplit)

(***************************************************************************)
(* The PDF files the store is fed, and DocumentProcessor.extract_text_     *)
(* from_pdf.  A file is what the collaborators make of it: whether the     *)
(* path exists, whether pdfplumber parses it, the text of its text layer   *)
(* and the text an OCR pass reads from its page images.                    *)
(***************************************************************************)
WordA == <<WordTok(2, 1)>>
WordK == <<WordTok(5, 20)>>
WordL == <<WordTok(4, 20)>>

Paths == {"missing.pdf", "corrupt.pdf", "blank.pdf", "scan.pdf", "short.pdf",
          "two.pdf"}

File(path) ==
    CASE path = "missing.pdf" ->
             [exists |-> FALSE, parses |-> FALSE, layer |-> <<>>, image |-> <<>>]
      [] path = "corrupt.pdf" ->
             [exists |-> TRUE, parses |-> FALSE, layer |-> <<>>, image |-> <<>>]
      [] path = "blank.pdf" ->
             [exists |-> TRUE, parses |-> TRUE, layer |-> <<Blank, Tabs>>,
              image |-> <<Tabs>>]
      [] path = "scan.pdf" ->
             [exists |-> TRUE, parses |-> TRUE, layer |-> <<>>,
              image |-> <<Blank>> \o WordL \o <<Tabs>>]
      [] path = "short.pdf" ->
             [exists |-> TRUE, parses |-> TRUE, layer |-> WordA, image |-> <<>>]
      [] OTHER ->
             [exists |-> TRUE, parses |-> TRUE,
              layer |-> WordK \o <<Blank>> \o WordK \o <<Tabs>> \o WordA,
              image |-> <<>>]

\* what the OCR collaborators do when asked
OcrAnswers == {"no_pdf2image", "no_pytesseract", "raises", "reads"}

\* a test that forgets strip()
NonBlankNoStrip(text) == text # <<>>

\* "if text and text.strip()"
NonBlank(text) == text # <<>> /\ Strip(text) # <<>>

\* an extraction without the OCR fallback
extract_text_no_fallback(f, ocr) ==
    IF ~f.exists \/ ~f.parses
    THEN [raised |-> TRUE, text |-> <<>>, ocr |-> "not_attempted"]
    ELSE [raised |-> FALSE, text |-> f.layer, ocr |-> "not_attempted"]

\* an extraction whose OCR imports are not guarded
extract_text_import_raises(f, ocr) ==
    IF ~f.exists \/ ~f.parses
    THEN [raised |-> TRUE, text |-> <<>>, ocr |-> "not_attempted"]
    ELSE IF NonBlank(f.layer)
    THEN [raised |-> FALSE, text |-> f.layer, ocr |-> "not_attempted"]
    ELSE IF ocr \in {"no_pdf2image", "no_pytesseract", "raises"}
    THEN [raised |-> TRUE, text |-> <<>>, ocr |-> "raised"]
    ELSE IF NonBlank(f.image)
    THEN [raised |-> FALSE, text |-> f.image, ocr |-> "ran"]
    ELSE [raised |-> FALSE, text |-> <<>>, ocr |-> "ran"]

\* extract_text_from_pdf on the file f: raised tells whether it raised, text is
\* the returned text, ocr how far the OCR fallback went ("not_attempted" when
\* the fallback was not entered)
extract_text(f, ocr) ==
    IF ~f.exists \/ ~f.parses
    THEN [raised |-> TRUE, text |-> <<>>, ocr |-> "not_attempted"]
    ELSE IF NonBlank(f.layer)
    THEN [raised |-> FALSE, text |-> f.layer, ocr |-> "not_attempted"]
    ELSE IF ocr \in {"no_pdf2image", "no_pytesseract"}
    THEN [raised |-> FALSE, text |-> <<>>, ocr |-> "import_failed"]
    ELSE IF ocr = "raises"
    THEN [raised |-> TRUE, text |-> <<>>, ocr |-> "raised"]
    ELSE IF NonBlank(f.image)
    THEN [raised |-> FALSE, text |-> f.image, ocr |-> "ran"]
    ELSE [raised |-> FALSE, text |-> <<>>, ocr |-> "ran"]

\* extract_text_from_pdf(pdf_path)
extract_text_from_pdf(path, ocr) == extract_text(File(path), ocr)

(***************************************************************************)
(* VectorStore                                                             *)
(***************************************************************************)
DocIds == {"A", "A_1"}

\* an id that numbers the chunks from one
ChunkIdFromOne(document_id, i) == document_id \o "_" \o ToString(i + 1)

\* f"{document_id}_{i}"
ChunkId(document_id, i) == document_id \o "_" \o ToString(i)

\* A mapping is its set of <<key, value>> items.  The metadata argument is
\* None, an empty mapping, or a mapping without 'document_id'.
NoneArg == [none |-> TRUE, items |-> {}]
Mapping(items) == [none |-> FALSE, items |-> items]

MetaArgs == {NoneArg, Mapping({}), Mapping({<<"title", "notes">>})}

\* metadata or {"source": pdf_path, "document_id": document_id}, with keys and
\* values passed through str()
BaseMeta(metadata, path, document_id) ==
    IF metadata.none \/ metadata.items = {}
    THEN {<<"source", path>>, <<"document_id", document_id>>}
    ELSE metadata.items

\* dict.get(key, default)
Get(items, key, default) ==
    IF \E kv \in items : kv[1] = key
    THEN (CHOOSE kv \in items : kv[1] = key)[2]
    ELSE default

\* The collection is the set of stored records {id, document, metadata}:
\* chromadb promises no order of its records.
Ids(coll) == {c.id : c \in coll}

\* Collection.add of chromadb's PersistentClient: a batch that repeats an id
\* is refused; a record whose id is already stored is skipped, not replaced
RECURSIVE AddRecords(_, _)
AddRecords(coll, batch) ==
    IF batch = <<>> THEN coll
    ELSE AddRecords(IF Head(batch).id \in Ids(coll) THEN coll
                    ELSE coll \cup {Head(batch)},
                    Tail(batch))

RepeatsId(batch) == \E j, k \in 1..Len(batch) : j # k /\ batch[j].id = batch[k].id

\* what the embedding model does when asked: loading or encoding raises, or
\* encode answers n vectors, as an ndarray or as a list; the two differ only
\* in how an answer of no vectors is found out
EncoderAnswers ==
    {[kind |-> "load_raises", n |-> 0], [kind |-> "encode_raises", n |-> 0],
     [kind |-> "list", n |-> 0]}
        \cup [kind : {"ndarray"}, n : 0..MaxVectors]

\* a load on every call: a model already there is replaced by another
ensure_model_reloads(mdl, enc) ==
    IF mdl = "None" /\ enc.kind = "load_raises" THEN "None"
    ELSE IF mdl = "None" THEN "loaded"
    ELSE "reloaded"

\* _ensure_model: the model after the call; "loaded" is the instance the
\* first successful load constructs, and a model already there is kept
ensure_model(mdl, enc) ==
    IF mdl # "None" THEN mdl
    ELSE IF enc.kind = "load_raises" THEN "None"
    ELSE "loaded"

ExtractionError == "extraction raised"
NoTextError == "ValueError: No extractable text found in PDF"
NoChunksError == "ValueError: No textual content to index from PDF"
NoVectorsError == "ValueError: Embedding model returned no vectors for chunks"
MismatchError == "ValueError: Embeddings/chunks length mismatch"
FileNotFound == "FileNotFoundError: PDF file not found"
ModelError == "the embedding model raised"
StoreError == "the collection raised"

\* a length check that only looks for an empty answer
LengthMismatchEmptyOnly(n_vectors, n_chunks) == n_vectors = 0

\* "not emb_list or len(emb_list) != len(chunks)"
LengthMismatch(n_vectors, n_chunks) == n_vectors = 0 \/ n_vectors # n_chunks

\* the write done first and the lengths checked after it
store_chunks_then_check(coll, batch, n_vectors, storeOk) ==
    IF ~storeOk \/ RepeatsId(batch)
    THEN [coll |-> coll, err |-> StoreError, wrote |-> TRUE]
    ELSE IF LengthMismatch(n_vectors, Len(batch))
    THEN [coll |-> AddRecords(coll, batch), err |-> MismatchError, wrote |-> TRUE]
    ELSE [coll |-> AddRecords(coll, batch), err |-> "", wrote |-> TRUE]

\* the end of add_document: the length check, then collection.add, which
\* either raises and stores nothing or stores the batch
store_chunks(coll, batch, n_vectors, storeOk) ==
    IF LengthMismatch(n_vectors, Len(batch))
    THEN [coll |-> coll, err |-> MismatchError, wrote |-> FALSE]
    ELSE IF ~storeOk \/ RepeatsId(batch)
    THEN [coll |-> coll, err |-> StoreError, wrote |-> TRUE]
    ELSE [coll |-> AddRecords(coll, batch), err |-> "", wrote |-> TRUE]

\* add_document up to its call of collection.add: extraction, chunking, the
\* model and encode, and the records to store; err names the exception raised
\* on the way, "" when there is none
prepare_document(mdl, document_id, path, metadata, ocr, enc) ==
    LET ex == extract_text_from_pdf(path, ocr)
        chunks == split_text_into_chunks(ex.text, ChunkSize, ChunkOverlap)
        quit(err, m) == [err |-> err, model |-> m, batch |-> <<>>]
        base == BaseMeta(metadata, path, document_id)
        batch == [k \in 1..Len(chunks) |->
                     [id |-> ChunkId(document_id, k - 1), document |-> chunks[k],
                      metadata |-> base]]
    IN
    IF ex.raised THEN quit(ExtractionError, mdl)
    ELSE IF ~NonBlank(ex.text) THEN quit(NoTextError, mdl)
    ELSE IF chunks = <<>> THEN quit(NoChunksError, mdl)
    ELSE IF mdl = "None" /\ enc.kind = "load_raises" THEN quit(ModelError, mdl)
    ELSE IF enc.kind \in {"load_raises", "encode_raises"}
    THEN quit(ModelError, ensure_model(mdl, enc))
    ELSE IF enc.n = 0 THEN quit(NoVectorsError, ensure_model(mdl, enc))
    ELSE [err |-> "", model |-> ensure_model(mdl, enc), batch |-> batch]

\* VectorStore.add_document: err is "" when the call returns and names the
\* exception when it raises; wrote tells whether collection.add was called
add_document(coll, mdl, document_id, path, metadata, ocr, enc, storeOk) ==
    LET p == prepare_document(mdl, document_id, path, metadata, ocr, enc)
        stored == store_chunks(coll, p.batch, enc.n, storeOk)
    IN
    IF p.err # ""
    THEN [coll |-> coll, model |-> p.model, err |-> p.err, wrote |-> FALSE,
          extracted |-> TRUE]
    ELSE [coll |-> stored.coll, model |-> p.model,
          err |-> stored.err, wrote |-> stored.wrote, extracted |-> TRUE]

\* RAGSystem.add_pdf_document
add_pdf_document(coll, mdl, document_id, path, metadata, ocr, enc, storeOk) ==
    IF ~File(path).exists
    THEN [coll |-> coll, model |-> mdl, err |-> FileNotFound, wrote |-> FALSE,
          extracted |-> FALSE]
    ELSE add_document(coll, mdl, document_id, path, metadata, ocr, enc, storeOk)

\* collection.get(where={"document_id": document_id})["ids"]
IdsWhere(coll, document_id) ==
    {c.id : c \in {d \in coll : Get(d.metadata, "document_id", "") = document_id}}

\* a delete that finds the chunks by their ids instead of their metadata
delete_by_chunk_id(coll, document_id, storeOk) ==
    IF ~storeOk THEN [coll |-> coll, err |-> StoreError]
    ELSE [coll |-> {c \in coll :
                      \A i \in 0..MaxVectors : c.id # ChunkId(document_id, i)},
          err |-> ""]

\* VectorStore.delete_document / RAGSystem.delete_document
delete_document(coll, document_id, storeOk) ==
    IF ~storeOk THEN [coll |-> coll, err |-> StoreError]
    ELSE IF IdsWhere(coll, document_id) # {}
    THEN [coll |-> {c \in coll : c.id \notin IdsWhere(coll, document_id)},
          err |-> ""]
    ELSE [coll |-> coll, err |-> ""]

\* VectorStore.get_document_count: collection.count(), and 0 when it raises
get_document_count(coll, storeOk) == IF storeOk THEN Cardinality(coll) ELSE 0

\* collection.get(): the stored records, in any order
Enumerations(coll) ==
    {recs \in [1..Cardinality(coll) -> coll] :
        \A j, k \in 1..Cardinality(coll) : j # k => recs[j] # recs[k]}

\* RAGSystem.list_documents on the records collection.get() returned: one
\* record per document_id, in the order the ids are first met
RECURSIVE GroupByDocument(_, _)
GroupByDocument(recs, documents) ==
    IF recs = <<>> THEN documents
    ELSE LET metadata == Head(recs).metadata
             doc_id == Get(metadata, "document_id", "unknown")
             at == {k \in 1..Len(documents) : documents[k].document_id = doc_id}
         IN
         IF at = {}
         THEN GroupByDocument(Tail(recs),
                  Append(documents,
                         [document_id |-> doc_id,
                          source |-> Get(metadata, "source", "unknown"),
                          chunks |-> 1]))
         ELSE GroupByDocument(Tail(recs),
                  [k \in 1..Len(documents) |->
                      IF k \in at
                      THEN [documents[k] EXCEPT !.chunks = @ + 1]
                      ELSE documents[k]])

\* what collection.get() does when asked: it answers the records, it raises,
\* or its answer has no metadatas
ListAnswers == {"records", "raises", "no_metadatas"}

list_documents(recs, answer) ==
    IF answer = "records" THEN GroupByDocument(recs, <<>>) ELSE <<>>

(***************************************************************************)
(* The store as a state machine: calls of add_pdf_document and             *)
(* delete_document, one at a time.  A collaborator's answer, and the       *)
(* metadata argument, are drawn only when the call gets to read them.      *)
(***************************************************************************)
Unused == "unused"
NoAnswer == [kind |-> Unused, n |-> 0]

OcrConsulted(path) ==
    LET f == File(path) IN f.exists /\ f.parses /\ ~NonBlank(f.layer)

\* the chunks an ingest of the file gets to, <<>> when it has none
FileChunks ==
    [path \in Paths |->
        [ocr \in OcrAnswers \cup {Unused} |->
            LET ex == extract_text_from_pdf(path, ocr) IN
            IF ~File(path).exists \/ ex.raised \/ ~NonBlank(ex.text) THEN <<>>
            ELSE split_text_into_chunks(ex.text, ChunkSize, ChunkOverlap)]]

ChunksOfFile(path, ocr) == FileChunks[path][ocr]

EncoderConsulted(path, ocr) == ChunksOfFile(path, ocr) # <<>>

StoreConsulted(path, ocr, enc) ==
    /\ EncoderConsulted(path, ocr)
    /\ enc.kind \in {"ndarray", "list"}
    /\ enc.n = Len(ChunksOfFile(path, ocr))

\* whether no stored chunk is tied to the document, by metadata or by id
NoChunksOf(coll, document_id) ==
    /\ IdsWhere(coll, document_id) = {}
    /\ \A i \in 0..MaxVectors : ChunkId(document_id, i) \notin Ids(coll)

IdleChunker ==
    /\ c_words = <<>>
    /\ c_text = <<>>
    /\ c_size = ChunkSize
    /\ c_overlap = ChunkOverlap
    /\ c_pc = "idle"
    /\ c_out = NoChunks

Init ==
    /\ collection = {}
    /\ model = "None"
    /\ last = NoCall
    /\ call = NoCall
    /\ IdleChunker
    /\ IdleApp
    /\ threads = NoThreads

\* a call of add_pdf_document; last keeps what later calls are judged by
AddPdfDocument ==
    \E document_id \in DocIds :
    LET count_before == get_document_count(collection, TRUE)
        fresh == NoChunksOf(collection, document_id)
    IN
    \E path \in Paths :
    \E ocr \in IF OcrConsulted(path) THEN OcrAnswers ELSE {Unused} :
    \E enc \in IF EncoderConsulted(path, ocr) THEN EncoderAnswers ELSE {NoAnswer} :
    \E storeOk \in IF StoreConsulted(path, ocr, enc) THEN BOOLEAN ELSE {TRUE} :
    \E metadata \in IF StoreConsulted(path, ocr, enc) /\ storeOk THEN MetaArgs
                    ELSE {NoneArg} :
        LET r == add_pdf_document(collection, model, document_id, path, metadata,
                                  ocr, enc, storeOk)
        IN
        /\ collection' = r.coll
        /\ model' = r.model
        /\ last' = [op |-> "add", doc |-> document_id, err |-> r.err,
                    chunks |-> IF r.err = "" THEN ChunksOfFile(path, ocr) ELSE <<>>,
                    count_before |-> count_before, fresh |-> fresh]
        /\ UNCHANGED <<call, chunkVars, appVars, threads>>

\* what a delete remembers of the call before it, when that call was a
\* successful ingest of the same document
IngestBefore(document_id) ==
    IF last.op = "add" /\ last.err = "" /\ last.doc = document_id
    THEN [present |-> TRUE, count_before |-> last.count_before,
          fresh |-> last.fresh]
    ELSE [present |-> FALSE, count_before |-> 0, fresh |-> FALSE]

DeleteDocument ==
    \E document_id \in DocIds, storeOk \in BOOLEAN :
        LET r == delete_document(collection, document_id, storeOk) IN
        /\ collection' = r.coll
        /\ last' = [op |-> "delete", doc |-> document_id, err |-> r.err,
                    ingest_before |-> IngestBefore(document_id)]
        /\ UNCHANGED <<model, call, chunkVars, appVars, threads>>

Next == AddPdfDocument \/ DeleteDocument

Spec == Init /\ [][Next]_vars

(***************************************************************************)
(* One call of add_pdf_document, from any state the store can be in, with  *)
(* everything the call read and did kept in `call`.                        *)
(***************************************************************************)
\* the stores one more returning call leads to, and the store a VectorStore
\* constructed anew finds: the persisted collection, and no model
StoresAfter(S) ==
    S \cup {[coll |-> add_pdf_document(st.coll, st.model, d, path, m, "reads",
                                       [kind |-> "ndarray",
                                        n |-> Len(ChunksOfFile(path, "reads"))],
                                       TRUE).coll,
             model |-> "loaded"] :
               st \in S, d \in DocIds, path \in {"scan.pdf", "two.pdf"},
               m \in MetaArgs}
      \cup {[coll |-> delete_document(st.coll, d, TRUE).coll, model |-> st.model] :
               st \in S, d \in DocIds}
      \cup {[coll |-> st.coll, model |-> "loaded"] : st \in S}
      \cup {[coll |-> st.coll, model |-> "None"] : st \in S}

RECURSIVE Closure(_)
Closure(S) == IF StoresAfter(S) = S THEN S ELSE Closure(StoresAfter(S))

\* every store a run of Spec reaches, in this process or a later one
ReachableStores == Closure({[coll |-> {}, model |-> "None"]})

InitCall ==
    /\ \E st \in ReachableStores : collection = st.coll /\ model = st.model
    /\ last = NoCall
    /\ call = NoCall
    /\ IdleChunker
    /\ IdleApp
    /\ threads = NoThreads

CallAddPdfDocument ==
    /\ call = NoCall
    /\ \E document_id \in DocIds, path \in Paths :
       \E ocr \in IF OcrConsulted(path) THEN OcrAnswers ELSE {Unused} :
       \E enc \in IF EncoderConsulted(path, ocr) THEN EncoderAnswers ELSE {NoAnswer} :
       \E storeOk \in IF StoreConsulted(path, ocr, enc) THEN BOOLEAN ELSE {TRUE} :
       \E metadata \in IF StoreConsulted(path, ocr, enc) /\ storeOk THEN MetaArgs
                       ELSE {NoneArg} :
           LET r == add_pdf_document(collection, model, document_id, path,
                                     metadata, ocr, enc, storeOk)
           IN
           /\ collection' = r.coll
           /\ model' = r.model
           /\ call' = [op |-> "add", doc |-> document_id, path |-> path,
                       ocr |-> ocr, enc |-> enc, storeOk |-> storeOk,
                       before |-> collection, err |-> r.err, wrote |-> r.wrote,
                       extracted |-> r.extracted]
           /\ UNCHANGED <<last, chunkVars, appVars, threads>>

NextCall == CallAddPdfDocument

SpecCall == InitCall /\ [][NextCall]_vars

(***************************************************************************)
(* Retrieval: VectorStore.search_similar_documents and RAGSystem.retrieve_ *)
(* relevant_context.                                                       *)
(***************************************************************************)
SearchResults == 3     \* RAGConfig.search_results

Queries == {"q1", "q2"}

\* the n_results argument: omitted (None) or a number
NoK == [none |-> TRUE, k |-> 0]
K(n) == [none |-> FALSE, k |-> n]
KArgs == {NoK} \cup {K(n) : n \in 0..MaxResults}

\* the distance chromadb computes between the query's vector and a stored
\* chunk's: a fixed function of the two texts, with ties
Distance(query, document) ==
    IF query = "q1" THEN Head(document).id ELSE StrLen(document)

Ascending(query, recs) ==
    \A j \in 1..(Len(recs) - 1) :
        Distance(query, recs[j].document) <= Distance(query, recs[j + 1].document)

\* collection.query(query_embeddings, n_results): the n nearest records,
\* nearest first, in each order chromadb may give to equal distances
QueryResults(coll, query, n) ==
    {SubSeq(recs, 1, IF n < Len(recs) THEN n ELSE Len(recs)) :
        recs \in {e \in Enumerations(coll) : Ascending(query, e)}}

\* an n_results that takes every falsy argument for an omitted one
EffectiveKAlwaysGiven(k) == IF k.none THEN SearchResults ELSE k.k

\* "n_results or self.config.search_results"
EffectiveK(k) == IF k.none \/ k.k = 0 THEN SearchResults ELSE k.k

\* what collection.query does when asked: it answers, it raises, or its
\* answer lacks one of documents, distances, metadatas
QueryAnswers == {"results", "raises", "incomplete"}

Hit(query, rec) ==
    [doc |-> rec.document, distance |-> Distance(query, rec.document),
     metadata |-> rec.metadata]

\* a search that hands the hits on in reverse
HitsOfReversed(query, recs) ==
    [j \in 1..Len(recs) |-> Hit(query, recs[Len(recs) + 1 - j])]

\* zip(documents[0], distances[0], metadatas[0]), appended in turn
HitsOf(query, recs) == [j \in 1..Len(recs) |-> Hit(query, recs[j])]

\* whether the search gets to collection.query: the model loads, encode
\* answers an ndarray (a list has no tolist())
QueryReached(mdl, enc) ==
    /\ ~(mdl = "None" /\ enc.kind = "load_raises")
    /\ enc.kind = "ndarray"

\* a search whose model is loaded outside the try, as add_document's is
search_loading_outside_try(mdl, query, enc, answer, found) ==
    IF mdl = "None" /\ enc.kind = "load_raises"
    THEN [hits |-> <<>>, model |-> mdl, failed |-> TRUE, raised |-> TRUE]
    ELSE IF enc.kind # "ndarray" \/ enc.n = 0 \/ answer = "raises"
    THEN [hits |-> <<>>, model |-> ensure_model(mdl, enc), failed |-> TRUE,
          raised |-> FALSE]
    ELSE [hits |-> HitsOf(query, found), model |-> ensure_model(mdl, enc),
          failed |-> FALSE, raised |-> FALSE]

\* VectorStore.search_similar_documents: the hits returned and the model after
\* the call; every exception ends in "return []".  found is the answer of
\* collection.query, one of QueryResults
search_similar_documents(mdl, query, enc, answer, found) ==
    IF mdl = "None" /\ enc.kind = "load_raises"
    THEN [hits |-> <<>>, model |-> mdl, failed |-> TRUE, raised |-> FALSE]
    ELSE IF enc.kind # "ndarray" \/ enc.n = 0 \/ answer = "raises"
    THEN [hits |-> <<>>, model |-> ensure_model(mdl, enc), failed |-> TRUE,
          raised |-> FALSE]
    ELSE IF answer = "incomplete"
    THEN [hits |-> <<>>, model |-> ensure_model(mdl, enc), failed |-> FALSE,
          raised |-> FALSE]
    ELSE [hits |-> HitsOf(query, found), model |-> ensure_model(mdl, enc),
          failed |-> FALSE, raised |-> FALSE]

\* The text of a context, as tokens: a label, a source, a number, the
\* separator of fifty dashes, and the line break that joins the lines
Newline == [sp |-> TRUE, id |-> 2, w |-> 1]
DocumentLabel == WordTok(201, 10)
RelevanceLabel == WordTok(202, 11)
ContentLabel == WordTok(203, 9)
Dashes == WordTok(204, 50)

SourceTok(source) ==
    CASE source = "Unknown" -> WordTok(300, 7)
      [] source = "scan.pdf" -> WordTok(301, 8)
      [] source = "two.pdf" -> WordTok(302, 7)
      [] OTHER -> WordTok(303, 5)

\* f"{distance:.4f}"
DistanceTok(distance) == WordTok(400 + distance, 6)

\* the four lines appended to context_parts for one hit
BlockOf(hit) ==
    << <<DocumentLabel, SourceTok(Get(hit.metadata, "source", "Unknown"))>>,
       <<RelevanceLabel, DistanceTok(hit.distance)>>,
       <<ContentLabel>> \o hit.doc,
       <<Dashes>> >>

\* context_parts after the hits from index j on are formatted
RECURSIVE ContextParts(_, _)
ContextParts(hits, j) ==
    IF j > Len(hits) THEN <<>> ELSE BlockOf(hits[j]) \o ContextParts(hits, j + 1)

\* a context without the separator lines
RECURSIVE ContextPartsNoDashes(_, _)
ContextPartsNoDashes(hits, j) ==
    IF j > Len(hits) THEN <<>>
    ELSE SubSeq(BlockOf(hits[j]), 1, 3) \o ContextPartsNoDashes(hits, j + 1)

FormatContextNoDashes(hits) ==
    IF hits = <<>> THEN <<>> ELSE JoinWith(ContextPartsNoDashes(hits, 1), <<Newline>>)

\* RAGSystem.retrieve_relevant_context, from the hits of the search on
FormatContext(hits) ==
    IF hits = <<>> THEN <<>> ELSE JoinWith(ContextParts(hits, 1), <<Newline>>)

(***************************************************************************)
(* One read of the index, from any state the store can be in, with         *)
(* everything the call read and answered kept in `call`.                   *)
(***************************************************************************)
\* a call of retrieve_relevant_context(query, n_results)
Retrieve ==
    /\ call = NoCall
    /\ \E query \in Queries, k \in KArgs :
       \E enc \in EncoderAnswers :
       \E answer \in IF QueryReached(model, enc) /\ enc.n > 0 THEN QueryAnswers
                     ELSE {Unused} :
       \E found \in IF answer = "results"
                    THEN QueryResults(collection, query, EffectiveK(k))
                    ELSE {<<>>} :
           LET r == search_similar_documents(model, query, enc, answer, found) IN
           /\ model' = r.model
           /\ call' = [op |-> "retrieve", query |-> query, k |-> k, enc |-> enc,
                       answer |-> answer, before |-> collection,
                       model_before |-> model, failed |-> r.failed,
                       raised |-> r.raised,
                       hits |-> r.hits,
                       text |-> IF r.raised THEN <<>> ELSE FormatContext(r.hits)]
           /\ UNCHANGED <<collection, last, chunkVars, appVars, threads>>

\* a call of get_document_count()
Count ==
    /\ call = NoCall
    /\ \E storeOk \in BOOLEAN :
           /\ call' = [op |-> "count", storeOk |-> storeOk, before |-> collection,
                       count |-> get_document_count(collection, storeOk)]
           /\ UNCHANGED <<collection, model, last, chunkVars, appVars, threads>>

\* a call of list_documents()
ListDocuments ==
    /\ call = NoCall
    /\ \E answer \in ListAnswers :
       \E recs \in IF answer = "records" THEN Enumerations(collection) ELSE {<<>>} :
           /\ call' = [op |-> "list", answer |-> answer, before |-> collection,
                       documents |-> list_documents(recs, answer)]
           /\ UNCHANGED <<collection, model, last, chunkVars, appVars, threads>>

NextRead == Retrieve \/ Count \/ ListDocuments

SpecRead == InitCall /\ [][NextRead]_vars

(***************************************************************************)
(* One call of extract_text_from_pdf, on every file of a family: the path  *)
(* is missing, the file does not parse, or it parses into a text layer and *)
(* page images that read as one of PageTexts.                              *)
(***************************************************************************)
PageTexts ==
    {<<>>, <<Blank>>, <<Blank, Tabs>>, WordA, <<Blank>> \o WordL \o <<Tabs>>,
     WordK \o <<Blank>> \o WordA}

Files ==
    {[exists |-> FALSE, parses |-> FALSE, layer |-> <<>>, image |-> <<>>],
     [exists |-> TRUE, parses |-> FALSE, layer |-> <<>>, image |-> <<>>]}
        \cup [exists : {TRUE}, parses : {TRUE}, layer : PageTexts, image : PageTexts]

InitExtract ==
    /\ collection = {}
    /\ model = "None"
    /\ last = NoCall
    /\ \E f \in Files, ocr \in OcrAnswers : call = [op |-> "input", file |-> f, ocr |-> ocr]
    /\ IdleChunker
    /\ IdleApp
    /\ threads = NoThreads

CallExtract ==
    /\ call.op = "input"
    /\ LET r == extract_text(call.file, call.ocr) IN
       call' = [op |-> "extract", file |-> call.file, ocr |-> call.ocr,
                raised |-> r.raised, text |-> r.text, fallback |-> r.ocr]
    /\ UNCHANGED <<collection, model, last, chunkVars, appVars, threads>>

NextExtract == CallExtract

SpecExtract == InitExtract /\ [][NextExtract]_vars

(***************************************************************************)
(* Sequential runs of every operation on one VectorStore; last keeps the   *)
(* operation, the model it found, and whether it got to model.encode.      *)
(***************************************************************************)
RunDocIds == DocIds

Ran(op, encodes) == [op |-> op, encodes |-> encodes, model_before |-> model]

\* whether a call that asks for the model gets it
ModelGiven(mdl, enc) == ~(mdl = "None" /\ enc.kind = "load_raises")

RunIngest ==
    \E document_id \in RunDocIds, path \in Paths :
    \E ocr \in IF OcrConsulted(path) THEN OcrAnswers ELSE {Unused} :
    \E enc \in IF EncoderConsulted(path, ocr) THEN EncoderAnswers ELSE {NoAnswer} :
    \E storeOk \in IF StoreConsulted(path, ocr, enc) THEN BOOLEAN ELSE {TRUE} :
    \E metadata \in IF StoreConsulted(path, ocr, enc) /\ storeOk THEN MetaArgs
                    ELSE {NoneArg} :
        LET r == add_pdf_document(collection, model, document_id, path, metadata,
                                  ocr, enc, storeOk)
        IN
        /\ collection' = r.coll
        /\ model' = r.model
        /\ last' = Ran("ingest", EncoderConsulted(path, ocr) /\ ModelGiven(model, enc))
        /\ UNCHANGED <<call, chunkVars, appVars, threads>>

RunDelete ==
    \E document_id \in RunDocIds, storeOk \in BOOLEAN :
        /\ collection' = delete_document(collection, document_id, storeOk).coll
        /\ last' = Ran("delete", FALSE)
        /\ UNCHANGED <<model, call, chunkVars, appVars, threads>>

RunSearch ==
    \E query \in Queries, k \in KArgs :
    \E enc \in EncoderAnswers :
    \E answer \in IF QueryReached(model, enc) /\ enc.n > 0 THEN QueryAnswers
                  ELSE {Unused} :
    \E found \in IF answer = "results"
                 THEN QueryResults(collection, query, EffectiveK(k))
                 ELSE {<<>>} :
        /\ model' = search_similar_documents(model, query, enc, answer, found).model
        /\ last' = Ran("search", ModelGiven(model, enc))
        /\ UNCHANGED <<collection, call, chunkVars, appVars, threads>>

RunCount ==
    /\ last' = Ran("count", FALSE)
    /\ UNCHANGED <<collection, model, call, chunkVars, appVars, threads>>

RunList ==
    /\ last' = Ran("list", FALSE)
    /\ UNCHANGED <<collection, model, call, chunkVars, appVars, threads>>

NextRun == RunIngest \/ RunDelete \/ RunSearch \/ RunCount \/ RunList

SpecRun == Init /\ [][NextRun]_vars

(***************************************************************************)
(* Concurrent calls of search_similar_documents on one VectorStore, thread *)
(* by thread through _ensure_model: the test of self._model, the           *)
(* construction of a SentenceTransformer, the assignment to self._model,   *)
(* the read of self._model for the return, and then encode and query.      *)
(* Nothing in the class holds a lock.                                      *)
(***************************************************************************)
Threads == 1..MaxThreads

\* the SentenceTransformer a thread constructs
Instance(t) == "instance_" \o ToString(t)

IdleThread == [pc |-> "idle", query |-> "", built |-> "None", m |-> "None",
               hits |-> <<>>]

InitSearches ==
    /\ collection = {}
    /\ model = "None"
    /\ last = NoCall
    /\ call = NoCall
    /\ IdleChunker
    /\ IdleApp
    /\ threads = [t \in Threads |-> IdleThread]

\* a thread enters search_similar_documents(query)
StartSearch(t) ==
    /\ threads[t].pc \in {"idle", "done"}
    /\ \E query \in Queries :
           threads' = [threads EXCEPT ![t] = [@ EXCEPT !.pc = "test", !.query = query,
                                                     !.m = "None", !.hits = <<>>]]
    /\ UNCHANGED <<collection, model, last, call, chunkVars, appVars>>

\* "if self._model is None"
TestModel(t) ==
    /\ threads[t].pc = "test"
    /\ threads' = [threads EXCEPT ![t].pc =
                       IF model = "None" THEN "construct" ELSE "return"]
    /\ UNCHANGED <<collection, model, last, call, chunkVars, appVars>>

\* SentenceTransformer(self.config.embedding_model): it answers an instance,
\* or raises, and the search returns []
ConstructModel(t) ==
    /\ threads[t].pc = "construct"
    /\ \/ threads' = [threads EXCEPT ![t] = [@ EXCEPT !.pc = "assign",
                                                      !.built = Instance(t)]]
       \/ threads' = [threads EXCEPT ![t].pc = "done"]
    /\ UNCHANGED <<collection, model, last, call, chunkVars, appVars>>

\* "self._model = ..."
AssignModel(t) ==
    /\ threads[t].pc = "assign"
    /\ model' = threads[t].built
    /\ threads' = [threads EXCEPT ![t].pc = "return"]
    /\ UNCHANGED <<collection, last, call, chunkVars, appVars>>

\* "return self._model"
ReturnModel(t) ==
    /\ threads[t].pc = "return"
    /\ threads' = [threads EXCEPT ![t] = [@ EXCEPT !.pc = "encode", !.m = model]]
    /\ UNCHANGED <<collection, model, last, call, chunkVars, appVars>>

\* model.encode([query]), collection.query and the hits, with the model the
\* thread was given
EncodeAndQuery(t) ==
    /\ threads[t].pc = "encode"
    /\ \E enc \in EncoderAnswers \ {[kind |-> "load_raises", n |-> 0]} :
       \E answer \in IF enc.kind = "ndarray" /\ enc.n > 0 THEN QueryAnswers
                     ELSE {Unused} :
       \E found \in IF answer = "results"
                    THEN QueryResults(collection, threads[t].query, SearchResults)
                    ELSE {<<>>} :
           threads' = [threads EXCEPT ![t] = [@ EXCEPT
               !.pc = "done",
               !.hits = search_similar_documents(threads[t].m, threads[t].query,
                                                 enc, answer, found).hits]]
    /\ UNCHANGED <<collection, model, last, call, chunkVars, appVars>>

NextSearches ==
    \E t \in Threads :
        \/ StartSearch(t)
        \/ TestModel(t)
        \/ ConstructModel(t)
        \/ AssignModel(t)
        \/ ReturnModel(t)
        \/ EncodeAndQuery(t)

SpecSearches == InitSearches /\ [][NextSearches]_vars

(***************************************************************************)
(* Concurrent calls of add_pdf_document and delete_document.  An ingest    *)
(* prepares its records and then calls collection.add; a delete asks       *)
(* collection.get for the ids and then calls collection.delete; each call  *)
(* of the collection is one step.  The callers run one call per            *)
(* document_id at a time.                                                  *)
(***************************************************************************)
WritePaths == {"short.pdf", "scan.pdf", "two.pdf"}
WriteMetaArgs == {NoneArg, Mapping({<<"title", "notes">>})}

IdleWriter == [pc |-> "idle", doc |-> "", batch |-> <<>>, ids |-> {},
               ended |-> ""]

InitWrites ==
    /\ collection = {}
    /\ model = "None"
    /\ last = NoCall
    /\ call = NoCall
    /\ IdleChunker
    /\ IdleApp
    /\ threads = [t \in Threads |-> IdleWriter]

InCall(t) == threads[t].pc # "idle"

\* callers that start calls whenever they like
MayStartUnserialized(t, document_id) == ~InCall(t)

\* the callers' rule: no two calls for one document_id at a time
MayStart(t, document_id) ==
    /\ ~InCall(t)
    /\ \A u \in Threads \ {t} : InCall(u) => threads[u].doc # document_id

Ended(how) == [IdleWriter EXCEPT !.ended = how]

\* add_pdf_document up to collection.add; the vectors are as many as the
\* chunks, or encode raises
StartIngest(t) ==
    \E document_id \in DocIds, path \in WritePaths :
    \E enc \in IF EncoderConsulted(path, "reads")
               THEN {[kind |-> "encode_raises", n |-> 0],
                     [kind |-> "ndarray", n |-> Len(ChunksOfFile(path, "reads"))]}
               ELSE {NoAnswer} :
    \E metadata \in IF StoreConsulted(path, "reads", enc) THEN WriteMetaArgs
                    ELSE {NoneArg} :
        LET p == prepare_document(model, document_id, path, metadata, "reads", enc) IN
        /\ MayStart(t, document_id)
        /\ model' = p.model
        /\ threads' = [threads EXCEPT ![t] =
               IF p.err # "" THEN Ended("raised")
               ELSE [pc |-> "add", doc |-> document_id, batch |-> p.batch,
                     ids |-> {}, ended |-> ""]]
        /\ UNCHANGED <<collection, last, call, chunkVars, appVars>>

\* the length check and collection.add
WriteIngest(t) ==
    /\ threads[t].pc = "add"
    /\ \E storeOk \in BOOLEAN :
           LET r == store_chunks(collection, threads[t].batch,
                                 Len(threads[t].batch), storeOk)
           IN
           /\ collection' = r.coll
           /\ threads' = [threads EXCEPT ![t] =
                  Ended(IF r.err = "" THEN "returned" ELSE "raised")]
    /\ UNCHANGED <<model, last, call, chunkVars, appVars>>

StartDelete(t) ==
    /\ \E document_id \in DocIds :
           /\ MayStart(t, document_id)
           /\ threads' = [threads EXCEPT ![t] =
                  [pc |-> "get", doc |-> document_id, batch |-> <<>>, ids |-> {},
                   ended |-> ""]]
    /\ UNCHANGED <<collection, model, last, call, chunkVars, appVars>>

\* results = self.collection.get(where={"document_id": document_id})
GetIds(t) ==
    /\ threads[t].pc = "get"
    /\ \E storeOk \in BOOLEAN :
           LET ids == IdsWhere(collection, threads[t].doc) IN
           threads' = [threads EXCEPT ![t] =
               IF ~storeOk THEN [Ended("raised") EXCEPT !.doc = threads[t].doc]
               ELSE IF ids = {} THEN [Ended("returned") EXCEPT !.doc = threads[t].doc]
               ELSE [@ EXCEPT !.pc = "delete", !.ids = ids]]
    /\ UNCHANGED <<collection, model, last, call, chunkVars, appVars>>

\* self.collection.delete(ids=results["ids"])
DeleteIds(t) ==
    /\ threads[t].pc = "delete"
    /\ \E storeOk \in BOOLEAN :
           /\ collection' = IF storeOk
                            THEN {c \in collection : c.id \notin threads[t].ids}
                            ELSE collection
           /\ threads' = [threads EXCEPT ![t] =
                  [Ended(IF storeOk THEN "returned" ELSE "raised")
                      EXCEPT !.doc = threads[t].doc]]
    /\ UNCHANGED <<model, last, call, chunkVars, appVars>>

NextWrites ==
    \E t \in Threads :
        \/ StartIngest(t)
        \/ WriteIngest(t)
        \/ StartDelete(t)
        \/ GetIds(t)
        \/ DeleteIds(t)

SpecWrites == InitWrites /\ [][NextWrites]_vars

(***************************************************************************)
(* Properties of split_text_into_chunks, over the chunker runs.            *)
(***************************************************************************)
ChunkDone == c_pc = "done"

\* every buffer the loop closed, in order: the full-size ones, then the buffer
\* left for the final flush
ClosedBuffers ==
    [k \in 1..Len(c_out.full) |-> c_out.full[k].buf]
        \o (IF c_out.last = <<>> THEN <<>> ELSE <<c_out.last>>)

\* the index of the last input word of closed buffer k
ClosedEnd(k) == IF k <= Len(c_out.full) THEN c_out.full[k].end ELSE Len(c_words)

\* the length floor of closed buffer k: max(20, 0.2 * size) for a full-size
\* buffer, 20 for the flushed one
PassesFloor(k) ==
    LET len == StrLen(Join(ClosedBuffers[k])) IN
    IF k <= Len(c_out.full) THEN len >= 20 /\ 5 * len >= c_size ELSE len >= 20

RECURSIVE KeptFrom(_)
KeptFrom(k) ==
    IF k > Len(ClosedBuffers) THEN <<>>
    ELSE (IF PassesFloor(k) THEN <<k>> ELSE <<>>) \o KeptFrom(k + 1)

\* the indices of the closed buffers that pass their floor
KeptIdx == KeptFrom(1)

LastN(lst, n) == SubSeq(lst, Len(lst) - n + 1, Len(lst))

RECURSIVE StitchChunks(_, _)
StitchChunks(cs, k) ==
    IF k > Len(cs) THEN <<>>
    ELSE (IF k = 1 THEN Split(cs[k]) ELSE Drop(Split(cs[k]), c_overlap))
             \o StitchChunks(cs, k + 1)

\* the input positions that lie in some buffer that passed its floor
CoveredPos ==
    UNION {(ClosedEnd(KeptIdx[j]) - Len(ClosedBuffers[KeptIdx[j]]) + 1)
               .. ClosedEnd(KeptIdx[j]) : j \in 1..Len(KeptIdx)}

RECURSIVE PickFrom(_, _, _)
PickFrom(words, i, S) ==
    IF i > Len(words) THEN <<>>
    ELSE (IF i \in S THEN <<words[i]>> ELSE <<>>) \o PickFrom(words, i + 1, S)

\* C5 as stated: with 0 <= overlap < size, every returned chunk after the
\* first begins with the last `overlap` words of the buffer closed before it,
\* and the returned chunks, each successor stripped of its first `overlap`
\* words, spell the input words except those lying only in discarded buffers.
C5_ExhaustiveAsStated ==
    (ChunkDone /\ 0 <= c_overlap /\ c_overlap < c_size) =>
        /\ Len(c_out.chunks) = Len(KeptIdx)
        /\ \A j \in 2..Len(c_out.chunks) :
              /\ Len(Split(c_out.chunks[j])) >= c_overlap
              /\ SubSeq(Split(c_out.chunks[j]), 1, c_overlap)
                     = LastN(ClosedBuffers[KeptIdx[j] - 1], c_overlap)
        /\ StitchChunks(c_out.chunks, 1) = PickFrom(c_words, 1, CoveredPos)

\* the words buffer k hands to its successor: `overlap` of them, and the whole
\* buffer when overlap = 0
Carried(k) == IF c_overlap = 0 THEN Len(ClosedBuffers[k]) ELSE c_overlap

RECURSIVE StitchBuffers(_)
StitchBuffers(k) ==
    IF k > Len(ClosedBuffers) THEN <<>>
    ELSE (IF k = 1 THEN ClosedBuffers[k]
          ELSE Drop(ClosedBuffers[k], Carried(k - 1))) \o StitchBuffers(k + 1)

\* C5 as amended: with 0 <= overlap < size, every closed buffer (emitted or
\* discarded) after the first begins with the words its predecessor carried
\* over (its last `overlap` words; the whole predecessor when overlap = 0),
\* the closed buffers with the carried words dropped spell the input words
\* exactly, and the returned chunks are the closed buffers that pass their
\* length floor, in order.
C5_ExhaustiveOverBuffers ==
    (ChunkDone /\ 0 <= c_overlap /\ c_overlap < c_size) =>
        /\ \A k \in 2..Len(ClosedBuffers) :
              /\ Len(ClosedBuffers[k]) >= Carried(k - 1)
              /\ SubSeq(ClosedBuffers[k], 1, Carried(k - 1))
                     = LastN(ClosedBuffers[k - 1], Carried(k - 1))
        /\ StitchBuffers(1) = c_words
        /\ c_out.chunks = [j \in 1..Len(KeptIdx) |-> Join(ClosedBuffers[KeptIdx[j]])]

\* a run with 1 <= overlap < size in which a buffer between two emitted ones
\* was discarded by the floor
C5_Witness ==
    /\ ChunkDone /\ 1 <= c_overlap /\ c_overlap < c_size
    /\ Len(c_out.chunks) >= 2
    /\ \E k \in 2..Len(ClosedBuffers) - 1 :
          ~PassesFloor(k) /\ PassesFloor(k - 1) /\ PassesFloor(k + 1)

\* the number of full-size windows of n words
Windows(n) ==
    IF n < c_size THEN 0 ELSE (n - c_size) \div (c_size - c_overlap) + 1

\* C6: with 1 <= overlap < size, the k-th buffer to reach `size` words is
\* words[k*(size-overlap) : k*(size-overlap)+size] (k from 0); with size 5,
\* overlap 2 and twelve distinct words the full buffers are words[0:5],
\* words[3:8], words[6:11], the flushed buffer is words[9:12], and each is
\* returned exactly when it passes its own floor.
C6_SlidingStep ==
    (ChunkDone /\ 1 <= c_overlap /\ c_overlap < c_size) =>
        /\ Len(c_out.full) = Windows(Len(c_words))
        /\ \A k \in 1..Len(c_out.full) :
              c_out.full[k].buf
                  = SubSeq(c_words, (k - 1) * (c_size - c_overlap) + 1,
                           (k - 1) * (c_size - c_overlap) + c_size)
        /\ (Len(c_words) = 12 /\ c_size = 5 /\ c_overlap = 2) =>
              /\ ClosedBuffers = <<SubSeq(c_words, 1, 5), SubSeq(c_words, 4, 8),
                                   SubSeq(c_words, 7, 11), SubSeq(c_words, 10, 12)>>
              /\ c_out.chunks
                     = [j \in 1..Len(KeptIdx) |-> Join(ClosedBuffers[KeptIdx[j]])]

\* the scenario run in which the three full buffers are returned and the
\* flushed one is discarded
C6_Witness ==
    /\ ChunkDone /\ Len(c_words) = 12 /\ c_size = 5 /\ c_overlap = 2
    /\ Len(c_out.full) = 3
    /\ Len(c_out.chunks) = 3

\* C7: every returned chunk holds at most chunk_size words, for chunk_size >= 1
\* and chunk_overlap >= 0.
C7_SizeBounded ==
    (ChunkDone /\ c_size >= 1 /\ c_overlap >= 0) =>
        \A j \in 1..Len(c_out.chunks) : Len(Split(c_out.chunks[j])) <= c_size

\* C8: an empty or whitespace-only text gives no chunks, whatever chunk_size
\* and chunk_overlap are.
C8_BlankGivesNoChunks ==
    (ChunkDone /\ \A i \in 1..Len(c_text) : c_text[i].sp) => c_out.chunks = <<>>

\* a finished run on a text of twenty or more whitespace characters and no
\* other character
C8_Witness ==
    /\ ChunkDone
    /\ c_text # <<>>
    /\ \A i \in 1..Len(c_text) : c_text[i].sp
    /\ StrLen(c_text) >= 20
    /\ c_out.chunks = <<>>

(***************************************************************************)
(* Properties of the store.                                                *)
(***************************************************************************)
\* every store a run reaches is one a single call is started from
StoreIsReachable == [coll |-> collection, model |-> model] \in ReachableStores

IdOf(document_id, i) == document_id \o "_" \o ToString(i)

\* C1: a returning add_pdf_document(A, ...) on a store without chunks of A,
\* followed by delete_document(A), leaves get_document_count() at its value
\* before the ingest and no record for A in list_documents().
C1_IngestThenDeleteRestores ==
    (/\ last.op = "delete" /\ last.err = ""
     /\ last.ingest_before.present /\ last.ingest_before.fresh) =>
        /\ get_document_count(collection, TRUE) = last.ingest_before.count_before
        /\ \A recs \in Enumerations(collection) :
              \A k \in 1..Len(list_documents(recs, "records")) :
                  list_documents(recs, "records")[k].document_id # last.doc

BlankText(text) == \A i \in 1..Len(text) : text[i].sp

\* C3: a missing path raises FileNotFoundError before extraction; blank
\* extracted text raises the no-extractable-text error; an empty chunk list
\* raises the different no-textual-content error; each before any store write.
C3_InputErrorsDistinct ==
    (call.op = "add") =>
        LET ex == extract_text_from_pdf(call.path, call.ocr) IN
        /\ ~File(call.path).exists =>
              /\ call.err = FileNotFound
              /\ ~call.extracted /\ ~call.wrote /\ collection = call.before
        /\ (File(call.path).exists /\ ~ex.raised /\ BlankText(ex.text)) =>
              /\ call.err = NoTextError
              /\ ~call.wrote /\ collection = call.before
        /\ (File(call.path).exists /\ ~ex.raised /\ ~BlankText(ex.text)
                /\ ChunksOfFile(call.path, call.ocr) = <<>>) =>
              /\ call.err = NoChunksError
              /\ ~call.wrote /\ collection = call.before
        /\ Cardinality({FileNotFound, NoTextError, NoChunksError}) = 3

\* a call on a file without text layer whose pages the OCR pass read as blank
C3_Witness ==
    /\ call.op = "add" /\ call.ocr = "reads"
    /\ call.err = NoTextError
    /\ call.before # {}

\* C4: when the encoder answers a number of vectors different from the number
\* of chunks (zero included), add_document raises and collection.add is not
\* called.
C4_MismatchNeverWrites ==
    (/\ call.op = "add"
     /\ call.enc.kind \in {"ndarray", "list"}
     /\ call.enc.n # Len(ChunksOfFile(call.path, call.ocr))) =>
        /\ call.err # ""
        /\ ~call.wrote
        /\ collection = call.before

\* a call in which the encoder answered one vector for two chunks
C4_Witness ==
    /\ call.op = "add"
    /\ call.enc.n = 1
    /\ Len(ChunksOfFile(call.path, call.ocr)) = 2
    /\ call.err = MismatchError

\* C9: every stored chunk has a text of at least 20 characters, and one of
\* chunk_size words or more has at least max(20, 0.2 * chunk_size).
C9_StoredChunksMeetFloor ==
    \A c \in collection :
        /\ c.document # <<>>
        /\ StrLen(c.document) >= 20
        /\ Len(Split(c.document)) >= ChunkSize => 5 * StrLen(c.document) >= ChunkSize

\* chunks of an ingest left in the store by a delete of another document
C9_Witness ==
    /\ last.op = "delete" /\ last.err = ""
    /\ Cardinality(collection) >= 2
    /\ \E c \in collection : Len(Split(c.document)) >= ChunkSize

\* the floors on the chunker's side, for every enumerated text
ChunksMeetFloor ==
    ChunkDone =>
        \A j \in 1..Len(c_out.chunks) :
            /\ StrLen(c_out.chunks[j]) >= 20
            /\ 5 * StrLen(c_out.chunks[j]) >= Len(Split(c_out.chunks[j]))

UniqueIds(coll) == \A c, d \in coll : c.id = d.id => c = d

\* C10 as stated: no two stored chunks share an id, and after an ingest of a
\* document every stored id document_id_i holds the chunk at index i of that
\* ingest, the most recent one of the document.
C10_IdsOfLatestIngest ==
    /\ UniqueIds(collection)
    /\ (last.op = "add" /\ last.err = "") =>
          \A c \in collection : \A i \in 0..MaxVectors :
              c.id = IdOf(last.doc, i) =>
                  /\ i < Len(last.chunks)
                  /\ c.document = last.chunks[i + 1]

\* C10 as amended: no two stored chunks share an id; a chunk enters the store
\* under id document_id_i only as the chunk at index i of the ingest that
\* stores it; and a stored chunk stays as it is until its id is deleted, also
\* when its document is ingested again.
C10_IdsOfStoringIngest ==
    [][/\ UniqueIds(collection')
       /\ \A c \in collection' :
             \/ c \in collection
             \/ /\ last'.op = "add" /\ last'.err = ""
                /\ \E i \in 0..(Len(last'.chunks) - 1) :
                      /\ c.id = IdOf(last'.doc, i)
                      /\ c.document = last'.chunks[i + 1]
       /\ \A c \in collection : c \in collection' \/ c.id \notin Ids(collection')
      ]_vars

\* after a second ingest of a document, without a delete and with another
\* number of chunks, its id of index 0 still holds the earlier ingest's chunk
C10_Witness ==
    /\ last.op = "add" /\ last.err = "" /\ ~last.fresh
    /\ \E c \in collection :
          /\ c.id = IdOf(last.doc, 0)
          /\ c.document # last.chunks[1]
    /\ \E c \in collection : c.id = IdOf(last.doc, 1)

(***************************************************************************)
(* Properties of the reads.                                                *)
(***************************************************************************)
Requested(k) == IF k.none THEN SearchResults ELSE k.k

NearestFirst(hits) ==
    \A j \in 1..(Len(hits) - 1) : hits[j].distance <= hits[j + 1].distance

\* C11: for every query and every requested count k >= 0 (the configured
\* default when k is omitted), the hits retrieve_relevant_context uses are at
\* most k and in non-decreasing order of distance.
C11_AtMostKNearestFirst ==
    (call.op = "retrieve") =>
        /\ Len(call.hits) <= Requested(call.k)
        /\ NearestFirst(call.hits)

\* the same for every requested count but zero
AtMostKWhenPositive ==
    (call.op = "retrieve" /\ (call.k.none \/ call.k.k > 0)) =>
        /\ Len(call.hits) <= Requested(call.k)
        /\ NearestFirst(call.hits)

\* C12: a read never propagates an internal failure: when the model load, the
\* encoding or the store read fails, the search returns no hits, the count
\* is 0 and the list is empty, and the stored chunks stay as they were.
C12_ReadsSwallowFailures ==
    /\ (call.op = "retrieve") =>
          /\ ~call.raised
          /\ collection = call.before
          /\ (\/ call.enc.kind \in {"load_raises", "encode_raises"}
                     /\ call.model_before = "None"
              \/ call.enc.kind = "encode_raises"
              \/ call.answer = "raises") =>
                 call.hits = <<>> /\ call.text = <<>>
    /\ (call.op = "count") =>
          /\ collection = call.before
          /\ ~call.storeOk => call.count = 0
    /\ (call.op = "list") =>
          /\ collection = call.before
          /\ call.answer = "raises" => call.documents = <<>>

\* a search whose model failed to load, on an index that holds chunks
C12_Witness ==
    /\ call.op = "retrieve"
    /\ call.model_before = "None" /\ call.enc.kind = "load_raises"
    /\ call.before # {}
    /\ call.hits = <<>>

\* the lines of a text, as str.split("\n") gives them
RECURSIVE LinesFrom(_, _, _)
LinesFrom(text, line, acc) ==
    IF text = <<>> THEN Append(acc, line)
    ELSE IF Head(text) = Newline THEN LinesFrom(Tail(text), <<>>, Append(acc, line))
    ELSE LinesFrom(Tail(text), Append(line, Head(text)), acc)

LinesOf(text) == IF text = <<>> THEN <<>> ELSE LinesFrom(text, <<>>, <<>>)

\* C13: the context has one block per hit, in the order of the hits, each
\* block the four lines source label, relevance, content, separator; without
\* hits, as on an index without chunks, it is the empty string.
C13_OneBlockPerHit ==
    (call.op = "retrieve") =>
        LET lines == LinesOf(call.text) IN
        /\ call.hits = <<>> => call.text = <<>>
        /\ call.before = {} => call.text = <<>>
        /\ Len(lines) = 4 * Len(call.hits)
        /\ \A j \in 1..Len(call.hits) :
              LET hit == call.hits[j]
                  at == 4 * (j - 1)
              IN
              /\ lines[at + 1] =
                     <<DocumentLabel, SourceTok(Get(hit.metadata, "source", "Unknown"))>>
              /\ lines[at + 2] = <<RelevanceLabel, DistanceTok(hit.distance)>>
              /\ lines[at + 3] = <<ContentLabel>> \o hit.doc
              /\ lines[at + 4] = <<Dashes>>

\* a context of two hits or more at different distances
C13_Witness ==
    /\ call.op = "retrieve"
    /\ Len(call.hits) >= 2
    /\ call.hits[1].distance < call.hits[2].distance
    /\ call.text # <<>>

(***************************************************************************)
(* Properties of delete_document and list_documents.                       *)
(***************************************************************************)
HasDocumentId(c, document_id) ==
    \E kv \in c.metadata : kv[1] = "document_id" /\ kv[2] = document_id

\* C14: delete_document(A) removes every stored chunk whose metadata
\* document_id is A and leaves every other stored chunk as it is; when no
\* chunk has document_id A it changes nothing and raises no error.
C14_DeleteRemovesByMetadata ==
    [][(last'.op = "delete") =>
          /\ last'.err \in {"", StoreError}
          /\ last'.err = "" =>
                collection' = {c \in collection : ~HasDocumentId(c, last'.doc)}
          /\ last'.err # "" => collection' = collection
      ]_vars

\* a delete that took a document's chunks out and left another's in
C14_Witness ==
    /\ last.op = "delete" /\ last.err = ""
    /\ last.ingest_before.present /\ last.ingest_before.fresh
    /\ get_document_count(collection, TRUE) = last.ingest_before.count_before
    /\ collection # {}

\* the document a stored chunk was ingested for, read off its id
IngestedFor(c, document_id) ==
    \E i \in 0..MaxVectors : c.id = IdOf(document_id, i)

ChunksIngestedFor(coll, document_id) == {c \in coll : IngestedFor(c, document_id)}

RECURSIVE SumChunks(_)
SumChunks(documents) ==
    IF documents = <<>> THEN 0 ELSE Head(documents).chunks + SumChunks(Tail(documents))

\* C15: in every reachable state of the index, list_documents returns exactly
\* one record per document that has a stored chunk, the record's chunks field
\* is the number of stored chunks of that document, and the chunks fields sum
\* to get_document_count().
C15_OneRecordPerDocument ==
    (call.op = "list" /\ call.answer = "records") =>
        /\ \A d \in DocIds :
              LET records == {k \in 1..Len(call.documents) :
                                 call.documents[k].document_id = d}
                  stored == ChunksIngestedFor(call.before, d)
              IN
              /\ stored # {} => Cardinality(records) = 1
              /\ stored = {} => records = {}
              /\ \A k \in records :
                    call.documents[k].chunks = Cardinality(stored)
        /\ \A k \in 1..Len(call.documents) : call.documents[k].document_id \in DocIds
        /\ SumChunks(call.documents) = get_document_count(call.before, TRUE)

\* the grouping as the code does it: one record per value of the chunks'
\* metadata document_id ("unknown" for a chunk without one), with its number
\* of chunks, summing to the count
ListGroupsByMetadata ==
    (call.op = "list" /\ call.answer = "records") =>
        LET key(c) == Get(c.metadata, "document_id", "unknown") IN
        /\ \A j, k \in 1..Len(call.documents) :
              call.documents[j].document_id = call.documents[k].document_id => j = k
        /\ {call.documents[k].document_id : k \in 1..Len(call.documents)}
               = {key(c) : c \in call.before}
        /\ \A k \in 1..Len(call.documents) :
              call.documents[k].chunks =
                  Cardinality({c \in call.before :
                                  key(c) = call.documents[k].document_id})
        /\ SumChunks(call.documents) = get_document_count(call.before, TRUE)

(***************************************************************************)
(* Properties of extract_text_from_pdf.                                    *)
(***************************************************************************)
PrimaryRaises(f) == ~f.exists \/ ~f.parses

OcrAttempts(c) == IF c.fallback = "not_attempted" THEN 0 ELSE 1

\* C16 as stated: the OCR fallback is attempted exactly once whenever primary
\* extraction raises or yields blank text, and never when it yields non-blank
\* text, which is returned unchanged.
C16_OcrOnRaiseOrBlank ==
    (call.op = "extract") =>
        /\ (PrimaryRaises(call.file) \/ BlankText(call.file.layer)) =>
               OcrAttempts(call) = 1
        /\ (~PrimaryRaises(call.file) /\ ~BlankText(call.file.layer)) =>
               /\ OcrAttempts(call) = 0
               /\ ~call.raised /\ call.text = call.file.layer

\* C16 as amended: the OCR fallback is attempted exactly once whenever primary
\* extraction returns blank text; when primary extraction raises, the error is
\* propagated and OCR is not attempted; and OCR is never attempted when the
\* primary text is non-blank, which is returned unchanged.
C16_OcrOnBlankOnly ==
    (call.op = "extract") =>
        /\ (~PrimaryRaises(call.file) /\ BlankText(call.file.layer)) =>
               OcrAttempts(call) = 1
        /\ PrimaryRaises(call.file) =>
               OcrAttempts(call) = 0 /\ call.raised
        /\ (~PrimaryRaises(call.file) /\ ~BlankText(call.file.layer)) =>
               /\ OcrAttempts(call) = 0
               /\ ~call.raised /\ call.text = call.file.layer

\* a file with a whitespace-only text layer whose page images were read
C16_Witness ==
    /\ call.op = "extract"
    /\ call.file.layer # <<>> /\ BlankText(call.file.layer)
    /\ call.fallback = "ran"
    /\ call.text = call.file.image /\ call.text # <<>>

\* C17: when primary extraction yields no text and pdf2image or pytesseract
\* cannot be imported, extract_text_from_pdf returns the empty string and
\* raises nothing; a failure of the OCR pass after both were imported is
\* propagated.
C17_MissingOcrGivesEmpty ==
    (/\ call.op = "extract"
     /\ ~PrimaryRaises(call.file) /\ BlankText(call.file.layer)) =>
        /\ call.ocr \in {"no_pdf2image", "no_pytesseract"} =>
               ~call.raised /\ call.text = <<>>
        /\ call.ocr = "raises" => call.raised

\* a scanned file (no text layer, readable pages) without pytesseract
C17_Witness ==
    /\ call.op = "extract"
    /\ call.ocr = "no_pytesseract"
    /\ call.file.layer = <<>> /\ ~BlankText(call.file.image)
    /\ ~call.raised /\ call.text = <<>>

(***************************************************************************)
(* Properties of the embedding model.                                      *)
(***************************************************************************)
\* C18: in a sequential run on one VectorStore the model is not loaded at
\* construction, nor by an ingest that fails before encoding, a delete, a
\* count or a list; the first operation that encodes loads it; and from then
\* on every ingest and search uses that instance, never reloaded or replaced.
C18_LoadedOnceOnFirstEncode ==
    /\ model = "None"
    /\ [][/\ ~last'.encodes => model' = model
          /\ last'.op \in {"delete", "count", "list"} => ~last'.encodes
          /\ last'.encodes => model' # "None"
          /\ model # "None" => model' = model
         ]_vars

\* a search that encodes with the instance an earlier ingest loaded
C18_Witness ==
    /\ last.op = "search" /\ last.encodes
    /\ last.model_before = "loaded" /\ model = "loaded"
    /\ collection # {}

\* C19: under any interleaving of concurrent searches, several of them
\* arriving before the model is loaded included, the embedding model is a
\* singleton: it is constructed at most once and every call encodes with the
\* same instance.
C19_ModelIsSingleton ==
    /\ Cardinality({t \in Threads : threads[t].built # "None"}) <= 1
    /\ \A t, u \in Threads :
          (threads[t].m # "None" /\ threads[u].m # "None") =>
              threads[t].m = threads[u].m

\* the first part alone: one construction at most
ConstructedOnce == Cardinality({t \in Threads : threads[t].built # "None"}) <= 1

\* the second part alone: one instance for every encode
OneInstanceEncodes ==
    \A t, u \in Threads :
        (threads[t].m # "None" /\ threads[u].m # "None") => threads[t].m = threads[u].m

(***************************************************************************)
(* Properties of concurrent ingests and deletes.                           *)
(***************************************************************************)
\* thread t returns from delete_document in this step
DeleteReturns(t) ==
    /\ threads[t].pc \in {"get", "delete"}
    /\ threads'[t].pc = "idle" /\ threads'[t].ended = "returned"

\* C20: with ingests and deletes serialized per document_id, every completed
\* delete_document(A) leaves no chunk of A in the index and removes no chunk
\* of another document (without that serialization a delete of A interleaved
\* with an ingest of A can complete with chunks of A stored).
C20_SerializedDeleteIsClean ==
    [][\A t \in Threads :
          DeleteReturns(t) =>
              /\ ChunksIngestedFor(collection', threads[t].doc) = {}
              /\ \A c \in collection :
                    ~IngestedFor(c, threads[t].doc) => c \in collection'
      ]_vars

\* the same, for the stores whose chunks all carry their document_id
SerializedDeleteIsCleanByMetadata ==
    [][\A t \in Threads :
          (/\ DeleteReturns(t)
           /\ \A c \in collection : \E d \in DocIds :
                 IngestedFor(c, d) /\ HasDocumentId(c, d)) =>
              /\ ChunksIngestedFor(collection', threads[t].doc) = {}
              /\ \A c \in collection :
                    ~IngestedFor(c, threads[t].doc) => c \in collection'
      ]_vars

(***************************************************************************)
(* The chat database of src/database.py.  A table is the set of its rows;  *)
(* a row keeps the columns the operations read: users (id, user_id), chats *)
(* (chat_id, user_id, title, updated_at), messages (chat_id, role,         *)
(* content, timestamp).  users.id is the autoincrement key of a table      *)
(* nothing is deleted from.  A chat_id is the number of the uuid4 draw     *)
(* that made it.  Times are numbered call by call in the order they were   *)
(* read off the clock (the readings of one call bear one number: a chat's  *)
(* time is never compared with a message's); clock is the latest time on   *)
(* a stored row, and a reading is later than every stored time.            *)
(***************************************************************************)
MaxChats == 2      \* chat identifiers drawn or named in a run
MaxClock == 4      \* clock readings taken in a run
MaxKeep == 1       \* largest keep a cleanup is called with

UserIds == {"u1", "u2"}
Roles == {"user", "assistant"}
DefaultTitle == "New Chat"
BlankTitles == {"", " "}
TitleArgs == {""}
None == [none |-> TRUE]
IntegrityError == "IntegrityError"

\* datetime.utcnow(): a reading later than clk
utcnow(clk) == clk + 1

\* the latest time on a row of the database
RECURSIVE MaxOf(_)
MaxOf(times) ==
    IF times = {} THEN 0
    ELSE LET t == CHOOSE x \in times : TRUE
             rest == MaxOf(times \ {t})
         IN IF t > rest THEN t ELSE rest

Latest(db) ==
    MaxOf({c.updated_at : c \in db.chats} \cup {m.timestamp : m \in db.messages})

Database == [users |-> users, chats |-> chats, messages |-> messages]
EmptyDatabase == [users |-> {}, chats |-> {}, messages |-> {}]

\* Query.first() over rows of which a unique column lets at most one match
First(rows) == IF rows = {} THEN None ELSE CHOOSE r \in rows : TRUE

\* a users table without the unique index on user_id
create_user_not_unique(db, user_id) ==
    LET row == [id |-> Cardinality(db.users) + 1, user_id |-> user_id] IN
    [db |-> [db EXCEPT !.users = @ \cup {row}], raised |-> "", ret |-> row]

\* create_user: user_id is unique, the commit of a second row raises
create_user(db, user_id) ==
    LET row == [id |-> Cardinality(db.users) + 1, user_id |-> user_id] IN
    IF \E u \in db.users : u.user_id = user_id
    THEN [db |-> db, raised |-> IntegrityError, ret |-> None]
    ELSE [db |-> [db EXCEPT !.users = @ \cup {row}], raised |-> "", ret |-> row]

get_user(db, user_id) == First({u \in db.users : u.user_id = user_id})

\* create_chat: a new uuid4, a blank title replaced by the default; chats.
\* user_id refers to users.user_id where the engine enforces it
create_chat(db, user_id, title, uuid, clk, fk) ==
    LET row == [chat_id |-> uuid, user_id |-> user_id,
                title |-> IF title \in BlankTitles THEN DefaultTitle ELSE title,
                updated_at |-> utcnow(clk)]
    IN
    IF fk /\ get_user(db, user_id) = None
    THEN [db |-> db, raised |-> IntegrityError, ret |-> None, clk |-> clk]
    ELSE [db |-> [db EXCEPT !.chats = @ \cup {row}], raised |-> "", ret |-> row,
          clk |-> clk + 1]

MessagesOf(db, chat_id) == {m \in db.messages : m.chat_id = chat_id}

\* get_chat: the chat row and, through selectinload, its messages
get_chat(db, chat_id) ==
    LET row == First({c \in db.chats : c.chat_id = chat_id}) IN
    IF row = None THEN None
    ELSE [chat_id |-> row.chat_id, user_id |-> row.user_id, title |-> row.title,
          updated_at |-> row.updated_at, messages |-> MessagesOf(db, chat_id)]

\* ORDER BY updated_at DESC
RECURSIVE OrderByUpdatedDesc(_)
OrderByUpdatedDesc(rows) ==
    IF rows = {} THEN <<>>
    ELSE LET first == CHOOSE c \in rows : \A d \in rows : d.updated_at <= c.updated_at
         IN <<first>> \o OrderByUpdatedDesc(rows \ {first})

get_user_chats(db, user_id) ==
    OrderByUpdatedDesc({c \in db.chats : c.user_id = user_id})

\* an add_message that leaves the chat's updated_at alone
add_message_no_touch(db, chat_id, role, content, clk, fk) ==
    LET chat == First({c \in db.chats : c.chat_id = chat_id})
        row == [chat_id |-> chat_id, role |-> role, content |-> content,
                timestamp |-> utcnow(clk)]
    IN
    IF chat = None /\ fk
    THEN [db |-> db, raised |-> IntegrityError, ret |-> None, clk |-> clk]
    ELSE [db |-> [db EXCEPT !.messages = @ \cup {row}], raised |-> "",
          ret |-> row, clk |-> clk + 1]

\* add_message: the message is added, the chat of that chat_id, when there is
\* one, gets updated_at = utcnow(), and both are committed; the message's
\* timestamp default is read at the flush.  messages.chat_id refers to
\* chats.chat_id where the engine enforces it
add_message(db, chat_id, role, content, clk, fk) ==
    LET chat == First({c \in db.chats : c.chat_id = chat_id})
        row == [chat_id |-> chat_id, role |-> role, content |-> content,
                timestamp |-> utcnow(clk)]
    IN
    IF chat = None
    THEN IF fk
         THEN [db |-> db, raised |-> IntegrityError, ret |-> None, clk |-> clk]
         ELSE [db |-> [db EXCEPT !.messages = @ \cup {row}], raised |-> "",
               ret |-> row, clk |-> clk + 1]
    ELSE [db |-> [db EXCEPT
                     !.messages = @ \cup {row},
                     !.chats = (@ \ {chat})
                                  \cup {[chat EXCEPT !.updated_at = utcnow(clk)]}],
          raised |-> "", ret |-> row, clk |-> clk + 1]

\* update_chat_title: None for a chat that is not there
update_chat_title(db, chat_id, title, clk) ==
    LET chat == First({c \in db.chats : c.chat_id = chat_id}) IN
    IF chat = None THEN [db |-> db, ret |-> None, clk |-> clk]
    ELSE LET row == [chat EXCEPT !.title = title, !.updated_at = utcnow(clk)] IN
         [db |-> [db EXCEPT !.chats = (@ \ {chat}) \cup {row}],
          ret |-> row, clk |-> clk + 1]

\* a delete that leaves the chat's messages in the table
delete_chat_keeps_messages(db, chat_id) ==
    LET chat == First({c \in db.chats : c.chat_id = chat_id}) IN
    IF chat = None THEN [db |-> db, ret |-> FALSE]
    ELSE [db |-> [db EXCEPT !.chats = @ \ {chat}], ret |-> TRUE]

\* delete_chat: the messages first, then the chat
delete_chat(db, chat_id) ==
    LET chat == First({c \in db.chats : c.chat_id = chat_id}) IN
    IF chat = None THEN [db |-> db, ret |-> FALSE]
    ELSE [db |-> [db EXCEPT !.messages = @ \ MessagesOf(db, chat_id),
                            !.chats = @ \ {chat}],
          ret |-> TRUE]

\* chats[keep:]
SliceFrom(s, keep) == SubSeq(s, keep + 1, Len(s))

\* a cleanup that deletes chats[:keep] and keeps the rest
cleanup_deletes_newest(db, user_id, keep) ==
    LET ordered == OrderByUpdatedDesc({c \in db.chats : c.user_id = user_id}) IN
    IF Len(ordered) <= keep THEN [db |-> db, ret |-> 0]
    ELSE LET to_delete == SubSeq(ordered, 1, Len(ordered) - keep)
             chat_ids == {to_delete[k].chat_id : k \in 1..Len(to_delete)}
         IN [db |-> [db EXCEPT
                        !.messages = {m \in @ : m.chat_id \notin chat_ids},
                        !.chats = {c \in @ : c.chat_id \notin chat_ids}],
             ret |-> Cardinality(chat_ids)]

\* cleanup_user_chats: all but the keep most recently updated chats of the
\* user go, with their messages
cleanup_user_chats(db, user_id, keep) ==
    LET ordered == OrderByUpdatedDesc({c \in db.chats : c.user_id = user_id}) IN
    IF Len(ordered) <= keep THEN [db |-> db, ret |-> 0]
    ELSE LET to_delete == SliceFrom(ordered, keep)
             chat_ids == {to_delete[k].chat_id : k \in 1..Len(to_delete)}
         IN [db |-> [db EXCEPT
                        !.messages = {m \in @ : m.chat_id \notin chat_ids},
                        !.chats = {c \in @ : c.chat_id \notin chat_ids}],
             ret |-> Cardinality(chat_ids)]

(***************************************************************************)
(* The database as a state machine: calls of the DatabaseManager, one      *)
(* at a time; last keeps the call made and what it returned or raised.     *)
(* SpecUsers runs the calls that create users and chats, SpecDb the calls  *)
(* on chats and messages of users already created.                         *)
(***************************************************************************)
InitDb ==
    /\ collection = {}
    /\ model = "None"
    /\ last = NoCall
    /\ call = NoCall
    /\ IdleChunker
    /\ threads = NoThreads
    /\ users = {}
    /\ chats = {}
    /\ messages = {}
    /\ clock = 0
    /\ uuids = 0
    /\ foreign_keys \in BOOLEAN
    /\ ask = NoAsk

Store(db) ==
    /\ users' = db.users
    /\ chats' = db.chats
    /\ messages' = db.messages
    /\ clock' = Latest(db)

\* the chat_id arguments: every identifier drawn so far, and one never drawn
ChatIdArgs == 1..(IF uuids < MaxChats THEN uuids + 1 ELSE MaxChats + 1)

CreateUser ==
    /\ \E user_id \in UserIds :
          LET r == create_user(Database, user_id) IN
          /\ Store(r.db)
          /\ last' = [op |-> "create_user", user_id |-> user_id,
                      raised |-> r.raised, ret |-> r.ret]
    /\ UNCHANGED <<uuids, foreign_keys, ask, collection, model, call, threads, chunkVars>>

CreateChat ==
    /\ clock < MaxClock
    /\ uuids < MaxChats
    /\ \E user_id \in UserIds, title \in TitleArgs :
          LET r == create_chat(Database, user_id, title, uuids + 1, clock,
                               foreign_keys)
          IN
          /\ Store(r.db)
          /\ uuids' = uuids + 1
          /\ last' = [op |-> "create_chat", user_id |-> user_id,
                      raised |-> r.raised, ret |-> r.ret]
    /\ UNCHANGED <<foreign_keys, ask, collection, model, call, threads, chunkVars>>

AddMessage ==
    /\ clock < MaxClock
    /\ \E chat_id \in ChatIdArgs :
          LET r == add_message(Database, chat_id, "user", "m", clock, foreign_keys) IN
          /\ Store(r.db)
          /\ last' = [op |-> "add_message", chat_id |-> chat_id,
                      raised |-> r.raised, ret |-> r.ret]
    /\ UNCHANGED <<uuids, foreign_keys, ask, collection, model, call, threads, chunkVars>>

UpdateChatTitle ==
    /\ clock < MaxClock
    /\ \E chat_id \in ChatIdArgs :
          LET r == update_chat_title(Database, chat_id, "R", clock) IN
          /\ Store(r.db)
          /\ last' = [op |-> "update_chat_title", chat_id |-> chat_id,
                      raised |-> "", ret |-> r.ret]
    /\ UNCHANGED <<uuids, foreign_keys, ask, collection, model, call, threads, chunkVars>>

DeleteChat ==
    /\ \E chat_id \in ChatIdArgs :
          LET r == delete_chat(Database, chat_id) IN
          /\ Store(r.db)
          /\ last' = [op |-> "delete_chat", chat_id |-> chat_id,
                      raised |-> "", ret |-> r.ret]
    /\ UNCHANGED <<uuids, foreign_keys, ask, collection, model, call, threads, chunkVars>>

CleanupUserChats ==
    /\ \E user_id \in UserIds, keep \in 0..MaxKeep :
          LET r == cleanup_user_chats(Database, user_id, keep) IN
          /\ Store(r.db)
          /\ last' = [op |-> "cleanup_user_chats", user_id |-> user_id,
                      keep |-> keep, raised |-> "", ret |-> r.ret]
    /\ UNCHANGED <<uuids, foreign_keys, ask, collection, model, call, threads, chunkVars>>

\* the users table after create_user("u1") and create_user("u2")
BothUsers == create_user(create_user(EmptyDatabase, "u1").db, "u2").db.users

\* calls that create: users, and chats for user_ids created or not
NextUsers == CreateUser \/ CreateChat

SpecUsers == InitDb /\ [][NextUsers]_vars

\* the chats and messages of two users already created
InitChats ==
    /\ collection = {}
    /\ model = "None"
    /\ last = NoCall
    /\ call = NoCall
    /\ IdleChunker
    /\ threads = NoThreads
    /\ users = BothUsers
    /\ chats = {}
    /\ messages = {}
    /\ clock = 0
    /\ uuids = 0
    /\ foreign_keys \in BOOLEAN
    /\ ask = NoAsk

NextDb ==
    \/ CreateChat
    \/ AddMessage
    \/ UpdateChatTitle
    \/ DeleteChat
    \/ CleanupUserChats

SpecDb == InitChats /\ [][NextDb]_vars

(***************************************************************************)
(* ChatHistoryManager of src/lmstudio_client.py and the /api/chat/ask      *)
(* handler of src/main.py, one request at a time and step by step: the     *)
(* checks and the history, the user message stored, the model called, its  *)
(* answer, the assistant message stored, the title and the response.       *)
(* ask keeps the request, what the handler read and raised, the status     *)
(* the client receives and the order of the events.                        *)
(***************************************************************************)
MaxMessages == 2   \* messages the chat holds before the request
MaxHistory == 2    \* largest ChatConfig.history_max_messages

RuDefaultTitle == "novyi chat"    \* the Russian default title of main.py
EmptyChatId == 0                  \* the empty string as a chat_id
SystemPrompt == [role |-> "system", content |-> "system prompt"]

\* sorted(chat.messages, key=lambda m: m.timestamp)
RECURSIVE OrderByTimestamp(_)
OrderByTimestamp(rows) ==
    IF rows = {} THEN <<>>
    ELSE LET first == CHOOSE m \in rows : \A d \in rows : m.timestamp <= d.timestamp
         IN <<first>> \o OrderByTimestamp(rows \ {first})

ApiMessages(rows) ==
    [k \in 1..Len(rows) |-> [role |-> rows[k].role, content |-> rows[k].content]]

\* messages[-self.max_history:]
format_messages_for_api(msgs, max_history) == TailSlice(msgs, max_history)

\* messages.append({"role": "user", ...}), then the truncation
add_user_message(msgs, content, max_history) ==
    format_messages_for_api(Append(msgs, [role |-> "user", content |-> content]),
                            max_history)

\* the database the request finds: chat 1 of user u1 with n messages, user
\* and assistant in turn
RECURSIVE Seeded(_, _)
Seeded(n, title) ==
    IF n = 0
    THEN LET r == create_chat([EmptyDatabase EXCEPT !.users = BothUsers], "u1",
                              title, 1, 0, FALSE)
         IN [db |-> r.db, clk |-> r.clk]
    ELSE LET st == Seeded(n - 1, title)
             r == add_message(st.db, 1, IF n % 2 = 1 THEN "user" ELSE "assistant",
                              "old", st.clk, FALSE)
         IN [db |-> r.db, clk |-> r.clk]

\* the body of the request: complete is whether all three fields are there
Requests ==
    [complete : BOOLEAN, chat_id : {EmptyChatId, 1, 2}, message : {"", "hi"},
     user_id : {"", "u1", "u2"}]

\* what LM Studio does with the completion request: a reply with content, a
\* reply whose content is blank, a reply without choices, an HTTP or
\* connection error, a timeout
ModelAnswers == {"content", "blank", "no_choices", "client_error", "timeout"}

\* lines 586-601: the reply's content, the apology for a blank one, the error
\* text when reading the reply raises
AssistantResponse(answer) ==
    IF answer = "content" THEN "answer"
    ELSE IF answer = "blank" THEN "Sorry, I couldn't generate a response."
    ELSE "Error: Failed to generate response."

\* a handler whose try encloses the await: a failed call becomes a reply
ModelOutcomeCaught(answer) ==
    [raised |-> FALSE, response |-> AssistantResponse(answer)]

\* line 583: the await is outside the inner try, so what _make_request raises
\* leaves the handler's body
ModelOutcome(answer) ==
    IF answer \in {"client_error", "timeout"}
    THEN [raised |-> TRUE, response |-> ""]
    ELSE [raised |-> FALSE, response |-> AssistantResponse(answer)]

\* lines 629-631: whatever the body raised, HTTPException included, is
\* raised again as HTTPException(500)
Respond(raised) == 500

\* pydantic refuses a body without a field before the handler is entered
UnprocessableEntity == 422

InitAsk ==
    /\ collection = {}
    /\ model = "None"
    /\ last = NoCall
    /\ call = NoCall
    /\ IdleChunker
    /\ threads = NoThreads
    /\ \E n \in 0..MaxMessages, title \in {"", RuDefaultTitle} :
          LET st == Seeded(n, title) IN
          /\ users = st.db.users
          /\ chats = st.db.chats
          /\ messages = st.db.messages
          /\ clock = Latest(st.db)
    /\ uuids = 1
    /\ foreign_keys = FALSE
    /\ \E h \in 0..MaxHistory, req \in Requests :
          ask = [pc |-> "request", max_history |-> h, request |-> req,
                 raised |-> 0, status |-> 0, found |-> {}, history |-> <<>>,
                 truncated |-> <<>>, api_messages |-> <<>>, title |-> "",
                 response |-> "", events |-> <<>>]

AskFrame == UNCHANGED <<collection, model, last, call, threads, chunkVars>>

Reject(raised) ==
    /\ ask' = [ask EXCEPT !.pc = "done", !.raised = raised,
                          !.status = Respond(raised)]
    /\ UNCHANGED dbVars

\* lines 546-574: the three checks, the history and the messages for the API
AskEnter ==
    /\ ask.pc = "request"
    /\ LET req == ask.request
           chat == get_chat(Database, req.chat_id)
       IN
       IF ~req.complete
       THEN /\ ask' = [ask EXCEPT !.pc = "done", !.status = UnprocessableEntity]
            /\ UNCHANGED dbVars
       ELSE IF req.chat_id = EmptyChatId \/ req.message = "" \/ req.user_id = ""
       THEN Reject(400)
       ELSE IF chat = None
       THEN Reject(404)
       ELSE IF chat.user_id # req.user_id
       THEN Reject(403)
       ELSE LET history == ApiMessages(OrderByTimestamp(chat.messages))
                truncated == add_user_message(history, req.message, ask.max_history)
            IN
            /\ ask' = [ask EXCEPT !.pc = "store_user", !.found = chat.messages,
                                  !.history = history, !.truncated = truncated,
                                  !.api_messages = <<SystemPrompt>> \o truncated,
                                  !.title = chat.title]
            /\ UNCHANGED dbVars
    /\ AskFrame

\* line 577: the user message is stored, unless the database fails
AskStoreUser ==
    /\ ask.pc = "store_user"
    /\ \E dbOk \in BOOLEAN :
          IF dbOk
          THEN LET r == add_message(Database, ask.request.chat_id, "user",
                                    ask.request.message, clock, foreign_keys)
               IN
               /\ Store(r.db)
               /\ ask' = [ask EXCEPT !.pc = "call_model",
                                     !.events = Append(@, "user_stored")]
               /\ UNCHANGED <<uuids, foreign_keys>>
          ELSE Reject(-1)
    /\ AskFrame

\* line 583: the request goes out to LM Studio
AskCallModel ==
    /\ ask.pc = "call_model"
    /\ ask' = [ask EXCEPT !.pc = "await", !.events = Append(@, "model_called")]
    /\ UNCHANGED dbVars
    /\ AskFrame

\* lines 583-601: the await ends, with a reply or with an exception
AskModelAnswers ==
    /\ ask.pc = "await"
    /\ \E answer \in ModelAnswers :
          LET r == ModelOutcome(answer) IN
          IF r.raised
          THEN ask' = [ask EXCEPT !.pc = "done", !.raised = -1,
                                  !.status = Respond(-1),
                                  !.events = Append(@, "model_raised")]
          ELSE ask' = [ask EXCEPT !.pc = "store_assistant",
                                  !.response = r.response,
                                  !.events = Append(@, IF answer \in {"client_error",
                                                                       "timeout"}
                                                       THEN "model_raised"
                                                       ELSE "model_returned")]
    /\ UNCHANGED dbVars
    /\ AskFrame

\* line 604: the assistant message is stored
AskStoreAssistant ==
    /\ ask.pc = "store_assistant"
    /\ LET r == add_message(Database, ask.request.chat_id, "assistant",
                            ask.response, clock, foreign_keys)
       IN
       /\ Store(r.db)
       /\ ask' = [ask EXCEPT !.pc = "titles",
                             !.events = Append(@, "assistant_stored")]
    /\ UNCHANGED <<uuids, foreign_keys>>
    /\ AskFrame

\* lines 606-628: a chat that had the Russian default title gets the preview
\* of the message, and the snippet if it has the default title still; 200
AskTitles ==
    /\ ask.pc = "titles"
    /\ LET chat_id == ask.request.chat_id
           first == IF ask.title = RuDefaultTitle
                    THEN update_chat_title(Database, chat_id, "preview", clock)
                    ELSE [db |-> Database, ret |-> None, clk |-> clock]
           chat == get_chat(first.db, chat_id)
           second == IF chat # None /\ chat.title = RuDefaultTitle
                     THEN update_chat_title(first.db, chat_id, "snippet", first.clk)
                     ELSE first
       IN Store(second.db)
    /\ ask' = [ask EXCEPT !.pc = "done", !.status = 200]
    /\ UNCHANGED <<uuids, foreign_keys>>
    /\ AskFrame

NextAsk ==
    \/ AskEnter
    \/ AskStoreUser
    \/ AskCallModel
    \/ AskModelAnswers
    \/ AskStoreAssistant
    \/ AskTitles

SpecAsk == InitAsk /\ [][NextAsk]_vars

(***************************************************************************)
(* Properties of the loop of split_text_into_chunks.                       *)
(***************************************************************************)
SplitDone == c_pc = "done" /\ call.op = "split"

\* the call returned what the function is defined to return
SplitReturnsChunkRun ==
    SplitDone => c_out = ChunkRun(c_text, c_size, c_overlap)

\* C25: for every text and every chunk_size >= 1 and chunk_overlap >= 0,
\* chunk_overlap >= chunk_size included, split_text_into_chunks returns; the
\* loop takes each input word exactly once and the list returned has at most
\* one chunk more than the input has words.
C25_SplitTerminates ==
    /\ <>(c_pc = "done")
    /\ [](SplitDone =>
            /\ Len(call.taken) = Len(c_words)
            /\ \A k \in 1..Len(call.taken) : call.taken[k] = 1
            /\ Len(c_out.chunks) <= Len(c_words) + 1
            /\ c_out = ChunkRun(c_text, c_size, c_overlap))

\* a call with chunk_overlap >= chunk_size that returned one chunk more than
\* the text has words
C25_Witness ==
    /\ SplitDone
    /\ c_overlap >= c_size
    /\ Len(c_words) >= 2
    /\ Len(c_out.chunks) = Len(c_words) + 1

(***************************************************************************)
(* Properties of the chat database.                                        *)
(***************************************************************************)
ChatsOf(rows, user_id) == {c \in rows : c.user_id = user_id}
ChatExists(rows, chat_id) == \E c \in rows : c.chat_id = chat_id

\* the chat a call stamped: the one created, messaged or retitled
Touched ==
    IF last'.op = "create_chat" /\ last'.raised = "" THEN {last'.ret.chat_id}
    ELSE IF last'.op = "add_message" /\ last'.raised = ""
            /\ ChatExists(chats, last'.chat_id) THEN {last'.chat_id}
    ELSE IF last'.op = "update_chat_title" /\ last'.ret # None THEN {last'.chat_id}
    ELSE {}

\* C21: for a user with n chats and keep >= 0, cleanup_user_chats returns
\* max(0, n - keep) and leaves the user min(n, keep) chats, each updated no
\* earlier than any chat it deleted (creation, add_message and
\* update_chat_title each give a chat the latest updated_at); the messages of
\* the deleted chats are deleted, and all other rows are unchanged.
C21_CleanupKeepsMostRecent ==
    [][/\ (last'.op = "cleanup_user_chats") =>
             LET n == Cardinality(ChatsOf(chats, last'.user_id))
                 kept == ChatsOf(chats', last'.user_id)
                 gone == ChatsOf(chats, last'.user_id) \ kept
             IN
             /\ last'.ret = IF n > last'.keep THEN n - last'.keep ELSE 0
             /\ Cardinality(kept) = IF n < last'.keep THEN n ELSE last'.keep
             /\ \A k \in kept, g \in gone : g.updated_at <= k.updated_at
             /\ chats' = chats \ gone
             /\ messages' = {m \in messages : \A g \in gone : m.chat_id # g.chat_id}
             /\ users' = users
       /\ \A chat_id \in Touched :
             \E c \in chats' :
                /\ c.chat_id = chat_id
                /\ \A d \in chats : d.updated_at < c.updated_at
      ]_vars

\* a cleanup that kept the chat messaged last, though it was created first,
\* and deleted the other with its message
C21_Witness ==
    /\ last.op = "cleanup_user_chats" /\ last.keep = 1 /\ last.ret = 1
    /\ \E c \in chats : c.user_id = last.user_id /\ c.chat_id = 1
    /\ uuids = 2
    /\ clock = 4
    /\ Cardinality(messages) = 1
    /\ \A m \in messages : m.chat_id = 1

\* C22: delete_chat of an existing chat returns True, after which get_chat
\* returns None and no message of that chat_id is left, every other chat and
\* message being unchanged; of a chat_id that does not exist it returns False
\* and changes nothing.
C22_DeleteChatFrame ==
    [][(last'.op = "delete_chat") =>
          IF get_chat(Database, last'.chat_id) # None
          THEN /\ last'.ret = TRUE
               /\ get_chat(Database', last'.chat_id) = None
               /\ MessagesOf(Database', last'.chat_id) = {}
               /\ chats' = {c \in chats : c.chat_id # last'.chat_id}
               /\ messages' = {m \in messages : m.chat_id # last'.chat_id}
               /\ users' = users
          ELSE /\ last'.ret = FALSE
               /\ UNCHANGED <<users, chats, messages>>
      ]_vars

\* a delete that took a chat and its message out and left another chat with
\* its message in
C22_Witness ==
    /\ last.op = "delete_chat" /\ last.ret = TRUE
    /\ MessagesOf(Database, last.chat_id) = {}
    /\ chats # {}
    /\ \E m \in messages : ChatExists(chats, m.chat_id)
    /\ uuids = 2
    /\ clock = 3

\* C24: get_user_chats(u) returns exactly the existing chats whose user_id is
\* u, each once, in order of non-increasing updated_at, and a chat just
\* created, messaged or retitled is the first of its owner's list.
C24_UserChatsNewestFirst ==
    /\ [](\A u \in UserIds :
            LET l == get_user_chats(Database, u) IN
            /\ {l[k] : k \in 1..Len(l)} = {c \in chats : c.user_id = u}
            /\ Len(l) = Cardinality({c \in chats : c.user_id = u})
            /\ \A k \in 1..(Len(l) - 1) : l[k].updated_at >= l[k + 1].updated_at)
    /\ [][\A chat_id \in Touched :
            \E c \in chats' :
               /\ c.chat_id = chat_id
               /\ Head(get_user_chats(Database', c.user_id)).chat_id = chat_id
         ]_vars

\* a user's older chat is messaged and is now listed before the newer one
C24_Witness ==
    /\ last.op = "add_message" /\ last.raised = "" /\ last.chat_id = 1
    /\ \E u \in UserIds :
          /\ Len(get_user_chats(Database, u)) = 2
          /\ get_user_chats(Database, u)[1].chat_id = 1
          /\ get_user_chats(Database, u)[2].chat_id = 2

\* C30: every stored message refers to an existing chat, also after an
\* add_message with a chat_id that was never created or was already deleted.
C30_MessagesReferToChats ==
    \A m \in messages : ChatExists(chats, m.chat_id)

\* the same where the engine enforces the foreign key
MessagesReferToChatsWhenEnforced ==
    foreign_keys => \A m \in messages : ChatExists(chats, m.chat_id)

\* C23: create_user with a user_id already stored raises an integrity error
\* and leaves the users unchanged, so there is at most one user per user_id;
\* get_user returns the user create_user stored, and None for a user_id no
\* create_user call was made with.
C23_UserIdsUnique ==
    /\ \A u \in UserIds : get_user(Database, u) = None
    /\ [](\A u \in UserIds : Cardinality({x \in users : x.user_id = u}) <= 1)
    /\ [][/\ (last'.op = "create_user") =>
                IF \E x \in users : x.user_id = last'.user_id
                THEN last'.raised = IntegrityError /\ users' = users
                ELSE /\ last'.raised = ""
                     /\ last'.ret.user_id = last'.user_id
                     /\ users' = users \cup {last'.ret}
                     /\ get_user(Database', last'.user_id) = last'.ret
          /\ \A u \in UserIds :
                (last'.op # "create_user" \/ last'.user_id # u) =>
                    get_user(Database', u) = get_user(Database, u)
         ]_vars

\* a second create_user of a stored user_id raised, with both users stored
C23_Witness ==
    /\ last.op = "create_user" /\ last.raised = IntegrityError
    /\ Cardinality(users) = 2
    /\ get_user(Database, last.user_id) # None

(***************************************************************************)
(* Properties of ChatHistoryManager and of the /api/chat/ask handler.      *)
(***************************************************************************)
PassedChecks == ask.pc # "request" /\ ask.status # UnprocessableEntity
                    /\ ask.raised \notin {400, 404, 403}

NewUserMessage == [role |-> "user", content |-> ask.request.message]

IsSuffix(s, t) ==
    Len(s) <= Len(t) /\ s = SubSeq(t, Len(t) - Len(s) + 1, Len(t))

\* C26: for every message list and every max_history >= 0, add_user_message
\* returns at most max_history messages, a suffix of the list extended with
\* the new user message, ending with that message when max_history >= 1.
C26_HistoryTruncated ==
    PassedChecks =>
        /\ Len(ask.truncated) <= ask.max_history
        /\ IsSuffix(ask.truncated, Append(ask.history, NewUserMessage))
        /\ ask.max_history >= 1 =>
              ask.truncated[Len(ask.truncated)] = NewUserMessage

\* the same for max_history >= 1 only
HistoryTruncatedWhenPositive ==
    (PassedChecks /\ ask.max_history >= 1) =>
        /\ Len(ask.truncated) <= ask.max_history
        /\ IsSuffix(ask.truncated, Append(ask.history, NewUserMessage))
        /\ ask.truncated[Len(ask.truncated)] = NewUserMessage

Before(events, a, b) ==
    \A k \in 1..Len(events) :
        events[k] = b => \E j \in 1..(k - 1) : events[j] = a

\* the messages the request added to its chat
Added == MessagesOf(Database, ask.request.chat_id) \ ask.found

C28_RejectionsKeepTheirStatus ==
    ask.pc = "done" =>
        /\ ask.raised \in {400, 404, 403} =>
              /\ ask.status = ask.raised
              /\ ask.events = <<>>
              /\ \A n \in 0..MaxMessages, title \in {"", RuDefaultTitle} :
                    chats = Seeded(n, title).db.chats =>
                        messages = Seeded(n, title).db.messages
        /\ (~ask.request.complete \/ ask.request.message = "") => ask.status = 400
        /\ (ask.request.complete /\ ask.request.chat_id = 2
                /\ ask.request.message # "" /\ ask.request.user_id # "") =>
              ask.raised = 404
        /\ (ask.request.complete /\ ask.request.chat_id = 1
                /\ ask.request.message # "" /\ ask.request.user_id = "u2") =>
              ask.raised = 403

\* what holds of a rejected request: nothing is stored, the model is not
\* called, and the client receives 500, or 422 for a body that lacks a field
RejectionsStoreNothing ==
    (ask.pc = "done" /\ (ask.raised \in {400, 404, 403} \/ ~ask.request.complete)) =>
        /\ ask.status \in {500, UnprocessableEntity}
        /\ ask.events = <<>>
        /\ \E n \in 0..MaxMessages, title \in {"", RuDefaultTitle} :
              /\ chats = Seeded(n, title).db.chats
              /\ messages = Seeded(n, title).db.messages

(***************************************************************************)
(* Properties of the metadata of stored chunks.                            *)
(***************************************************************************)
HasKey(c, key) == \E kv \in c.metadata : kv[1] = key

\* C29: after any sequence of ingests and deletes, every stored chunk that
\* add_document stored for document_id A carries metadata whose 'document_id'
\* is A and which has a 'source' entry, whatever the metadata argument was.
C29_ChunksCarryDocumentId ==
    \A c \in collection : \A d \in DocIds :
        IngestedFor(c, d) => HasDocumentId(c, d) /\ HasKey(c, "source")

\* the same of the chunks stored with the metadata argument None or {}
ChunksOfDefaultMetadataCarryDocumentId ==
    \A c \in collection : \A d \in DocIds :
        (IngestedFor(c, d) /\ HasKey(c, "document_id")) =>
            HasDocumentId(c, d) /\ HasKey(c, "source")

====
